---- MODULE Spec2Model ----
(***************************************************************************)
(* Model of the frontEnd-shop admin console and storefront:                *)
(*   - useProductAdmin (the product form state machine and its submission  *)
(*     workflow), with the UI gating of ProductAdminForm / Panel / List;   *)
(*   - productService (the remote catalog gateway) and the shared          *)
(*     ApiClient whose default headers it mutates;                         *)
(*   - ProductShowcase's list effect with its cancellation flag.           *)
(*                                                                         *)
(* Every `await` of the source is a suspension point: the code up to the   *)
(* next await is one atomic action (JavaScript runs a handler and its      *)
(* microtask continuations to completion before the next user event).      *)
(* Closures are modelled by the values a handler captured when it started. *)
(* Nullable / optional values are <<>> (absent) or <<v>> (present).        *)
(***************************************************************************)
EXTENDS Integers, Sequences, FiniteSets, TLC

\* ------------------------------------------------------------------ bounds
\* user events (keystrokes, clicks, file selections) explored per behaviour
MaxEvents == 4
\* handleSubmit invocations past validation that the model can hold at once
MaxInFlight == 2
\* loadProducts calls in flight at once
MaxFetches == 2
\* handleDelete calls in flight at once
MaxDeletes == 1
\* createPreviewUrl reads in flight at once
MaxPreviews == 1
\* gateway calls recorded by the gateway specification
MaxCalls == 2
\* filter-spec changes explored by the showcase specification
MaxSpecChanges == 3
\* products in a list handed to applyClientFilters
MaxListLen == 4
\* ApiClient.request calls recorded by the client specification
MaxRequests == 2

\* ------------------------------------------------------------ optional values
None == <<>>
Some(x) == <<x>>
IsSome(m) == m # <<>>
Val(m) == m[1]

\* JavaScript truthiness of an optional string (undefined, null and "" are falsy)
Truthy(m) == IsSome(m) /\ Val(m) # ""

\* ------------------------------------------------------------------ strings
\* Strings are sequences of characters; the only whitespace the model types is
\* the space.  Number() and String() are given by what they return on the
\* literals the model uses.
RECURSIVE trimStringStart(_)
trimStringStart(s) ==
  IF Len(s) > 0 /\ SubSeq(s, 1, 1) = " " THEN trimStringStart(SubSeq(s, 2, Len(s))) ELSE s

RECURSIVE trimStringEnd(_)
trimStringEnd(s) ==
  IF Len(s) > 0 /\ SubSeq(s, Len(s), Len(s)) = " "
    THEN trimStringEnd(SubSeq(s, 1, Len(s) - 1)) ELSE s

\* String.prototype.trim
Trim(s) == trimStringEnd(trimStringStart(s))

NaN == [nan |-> TRUE, val |-> 0]
Num(n) == [nan |-> FALSE, val |-> n]

\* value of a decimal digit, -1 for any other character
DigitValue(c) ==
  CASE c = "0" -> 0 [] c = "1" -> 1 [] c = "2" -> 2 [] c = "3" -> 3 [] c = "4" -> 4
    [] c = "5" -> 5 [] c = "6" -> 6 [] c = "7" -> 7 [] c = "8" -> 8 [] c = "9" -> 9
    [] OTHER -> 0 - 1

IsDigits(s) == Len(s) > 0 /\ \A k \in 1..Len(s) : DigitValue(SubSeq(s, k, k)) >= 0

RECURSIVE DigitsValue(_)
DigitsValue(s) ==
  IF Len(s) = 0 THEN 0
  ELSE 10 * DigitsValue(SubSeq(s, 1, Len(s) - 1)) + DigitValue(SubSeq(s, Len(s), Len(s)))

\* Number(string) on the strings the model holds: whitespace-only and empty
\* strings are 0, a decimal integer literal with an optional sign is its value
\* (surrounding whitespace ignored), anything else is NaN.
Number(s) ==
  LET t == Trim(s) IN
  IF t = "" THEN Num(0)
  ELSE IF IsDigits(t) THEN Num(DigitsValue(t))
  ELSE IF SubSeq(t, 1, 1) = "-" /\ IsDigits(SubSeq(t, 2, Len(t)))
    THEN Num(0 - DigitsValue(SubSeq(t, 2, Len(t))))
  ELSE NaN

DigitChar(d) ==
  CASE d = 0 -> "0" [] d = 1 -> "1" [] d = 2 -> "2" [] d = 3 -> "3" [] d = 4 -> "4"
    [] d = 5 -> "5" [] d = 6 -> "6" [] d = 7 -> "7" [] d = 8 -> "8" [] OTHER -> "9"

RECURSIVE NatString(_)
NatString(n) == IF n < 10 THEN DigitChar(n) ELSE NatString(n \div 10) \o DigitChar(n % 10)

\* String(number) for the integers the catalog holds
String(n) == IF n < 0 THEN "-" \o NatString(0 - n) ELSE NatString(n)

\* value.split(",")
RECURSIVE split(_)
split(value) ==
  IF \E k \in 1..Len(value) : SubSeq(value, k, k) = ","
    THEN LET k == CHOOSE i \in 1..Len(value) :
                    /\ SubSeq(value, i, i) = ","
                    /\ \A j \in 1..(i - 1) : SubSeq(value, j, j) # ","
         IN <<SubSeq(value, 1, k - 1)>> \o split(SubSeq(value, k + 1, Len(value)))
    ELSE <<value>>

\* entries.filter(Boolean): the empty string is falsy
RECURSIVE filterBoolean(_)
filterBoolean(entries) ==
  IF entries = <<>> THEN <<>>
  ELSE IF Head(entries) = "" THEN filterBoolean(Tail(entries))
  ELSE <<Head(entries)>> \o filterBoolean(Tail(entries))

\* value.split(",").map(trim).filter(Boolean)
toList(value) ==
  LET entries == split(value) IN
  filterBoolean([k \in 1..Len(entries) |-> Trim(entries[k])])

\* list.join(", ")
RECURSIVE JoinList(_)
JoinList(list) ==
  IF list = <<>> THEN ""
  ELSE IF Len(list) = 1 THEN list[1]
  ELSE list[1] \o ", " \o JoinList(Tail(list))

\* ------------------------------------------------------------------- images
S3OldUrl == "https://rifasimagenes.s3.us-east-2.amazonaws.com/old.png"
S3NewUrl == "https://rifasimagenes.s3.us-east-2.amazonaws.com/1-new.png"
ExtUrl == "https://cdn.example.com/p.png"
DataUrl == "data:image/png;base64,AAAA"

\* imageUrl.includes("s3.amazonaws.com") || imageUrl.includes(bucket)
isS3Image(url) == url \in {S3OldUrl, S3NewUrl}

\* new URL(imageUrl).pathname.substring(1)
S3Key(url) ==
  CASE url = S3OldUrl -> "old.png"
    [] url = S3NewUrl -> "1-new.png"
    [] url = ExtUrl -> "p.png"
    [] OTHER -> ""

startsWithData(url) == url = DataUrl

MaxImageBytes == 5242880

FilePng == [name |-> "new.png", type |-> "image/png", size |-> 1024]
FilePdf == [name |-> "doc.pdf", type |-> "application/pdf", size |-> 1024]
FileBig == [name |-> "big.jpg", type |-> "image/jpeg", size |-> 11534336]
Files == {FilePng, FilePdf, FileBig}

AllowedTypes == {"image/jpeg", "image/jpg", "image/png", "image/webp", "image/gif"}

\* a plausible slip: the size check is missing
validateImageFileNoSizeLimit(file) ==
  IF file.type \notin AllowedTypes
    THEN [valid |-> FALSE,
          error |-> Some("Invalid file type. Please upload a JPEG, PNG, WebP, or GIF image.")]
  ELSE [valid |-> TRUE, error |-> None]

\* imageUploadService.validateImageFile
validateImageFile(file) ==
  IF file.type \notin AllowedTypes
    THEN [valid |-> FALSE,
          error |-> Some("Invalid file type. Please upload a JPEG, PNG, WebP, or GIF image.")]
  ELSE IF file.size > MaxImageBytes
    THEN [valid |-> FALSE, error |-> Some("File size exceeds 5MB limit.")]
  ELSE [valid |-> TRUE, error |-> None]

\* the URL uploadImageToS3 returns for a file (bucket URL of the new key)
UploadedUrl(file) == S3NewUrl

\* the data URL FileReader.readAsDataURL yields for a file
PreviewUrlOf(file) == DataUrl

\* ----------------------------------------------------------------- products
P1 == [id |-> 1, name |-> "Mug",
       price |-> Some([amount |-> 20, originalAmount |-> Some(30), currency |-> "USD"]),
       imageUrl |-> Some(S3OldUrl), thumbnailUrl |-> None,
       tags |-> <<"kitchen", "sale">>, badges |-> <<"new">>,
       rating |-> Some(4), reviewCount |-> Some(7), stock |-> Some(3),
       featured |-> TRUE]
P2 == [id |-> 2, name |-> "Cup",
       price |-> Some([amount |-> 5, originalAmount |-> None, currency |-> "USD"]),
       imageUrl |-> None, thumbnailUrl |-> None,
       tags |-> <<>>, badges |-> <<>>,
       rating |-> None, reviewCount |-> None, stock |-> None,
       featured |-> FALSE]

\* a product without a price (and with a description), and one that shares price, rating and featured
\* flag with P1
N1 == [id |-> 4, name |-> "Cup", description |-> "Mug",
       price |-> None,
       imageUrl |-> None, thumbnailUrl |-> None,
       tags |-> <<"Kitchen">>, badges |-> <<>>,
       rating |-> Some(0), reviewCount |-> None, stock |-> None,
       featured |-> FALSE]
N2 == [id |-> 5, name |-> "Mug",
       price |-> Some([amount |-> 20, originalAmount |-> None, currency |-> "USD"]),
       imageUrl |-> None, thumbnailUrl |-> None,
       tags |-> <<"design">>, badges |-> <<"sale">>,
       rating |-> Some(4), reviewCount |-> None, stock |-> None,
       featured |-> TRUE]

\* the item lists GET /products answers with
Catalogs == {<<P1, P2>>, <<P2>>}

\* --------------------------------------------------------------------- form
DEFAULT_PRODUCT_FORM ==
  [name |-> "", slug |-> "", summary |-> "", description |-> "",
   price |-> "", originalPrice |-> "", currency |-> "USD",
   imageUrl |-> "", thumbnailUrl |-> "", badges |-> "", tags |-> "",
   rating |-> "", reviewCount |-> "", inventoryStatus |-> "IN_STOCK",
   featured |-> FALSE, serialNumber |-> "", stock |-> ""]

OrUndefined(s) == IF s = "" THEN None ELSE Some(s)

\* `{} as CreateProductPayload`: the object with no keys
EmptyPayload == <<>>

\* a plausible slip: `< 0` for `<= 0`
priceInvalidAllowsZero(v) == v.nan \/ v.val < 0

\* Number.isNaN(priceValue) || priceValue <= 0
priceInvalid(v) == v.nan \/ v.val <= 0

buildPayload(f) ==
  LET priceValue == Number(f.price)
      originalPriceValue == IF Trim(f.originalPrice) # "" THEN Some(Number(f.originalPrice)) ELSE None
      ratingValue == IF Trim(f.rating) # "" THEN Some(Number(f.rating)) ELSE None
      reviewCountValue == IF Trim(f.reviewCount) # "" THEN Some(Number(f.reviewCount)) ELSE None
      stockValue == IF Trim(f.stock) # "" THEN Some(Number(f.stock)) ELSE None
      badgesList == toList(f.badges)
      tagsList == toList(f.tags)
      imageUrl == Trim(f.imageUrl)
      thumbnailUrl == Trim(f.thumbnailUrl)
      numOf(m) == IF IsSome(m) THEN Some(Val(m).val) ELSE None
  IN
  IF priceInvalid(priceValue)
    THEN [payload |-> EmptyPayload, error |-> Some("Price must be a positive number.")]
  ELSE IF IsSome(originalPriceValue) /\ Val(originalPriceValue).nan
    THEN [payload |-> EmptyPayload, error |-> Some("Original price must be a number.")]
  ELSE IF IsSome(ratingValue) /\ (Val(ratingValue).nan \/ Val(ratingValue).val < 0)
    THEN [payload |-> EmptyPayload, error |-> Some("Rating must be a valid number.")]
  ELSE IF IsSome(reviewCountValue) /\ Val(reviewCountValue).nan
    THEN [payload |-> EmptyPayload, error |-> Some("Review count must be a valid number.")]
  ELSE IF IsSome(stockValue) /\ Val(stockValue).nan
    THEN [payload |-> EmptyPayload, error |-> Some("Stock must be a valid number.")]
  ELSE
    [payload |->
       [name |-> Trim(f.name),
        slug |-> OrUndefined(Trim(f.slug)),
        summary |-> OrUndefined(Trim(f.summary)),
        description |-> OrUndefined(Trim(f.description)),
        price |-> priceValue.val,
        originalPrice |-> numOf(originalPriceValue),
        currency |-> OrUndefined(Trim(f.currency)),
        imageUrl |-> IF imageUrl # "" /\ ~startsWithData(imageUrl) THEN Some(imageUrl) ELSE None,
        thumbnailUrl |-> IF thumbnailUrl # "" /\ ~startsWithData(thumbnailUrl)
                           THEN Some(thumbnailUrl) ELSE None,
        badges |-> IF Len(badgesList) > 0 THEN Some(badgesList) ELSE None,
        tags |-> IF Len(tagsList) > 0 THEN Some(tagsList) ELSE None,
        rating |-> numOf(ratingValue),
        reviewCount |-> numOf(reviewCountValue),
        inventoryStatus |-> f.inventoryStatus,
        featured |-> f.featured,
        serialNumber |-> OrUndefined(Trim(f.serialNumber)),
        stock |-> numOf(stockValue)],
     error |-> None]

\* product.slug ?? "" and the like: an optional text field of a product
optionalText(p, field) == IF field \in DOMAIN p THEN p[field] ELSE ""

productToFormState(p) ==
  [name |-> p.name,
   slug |-> optionalText(p, "slug"),
   summary |-> optionalText(p, "summary"),
   description |-> optionalText(p, "description"),
   price |-> IF IsSome(p.price) THEN String(Val(p.price).amount) ELSE "",
   originalPrice |-> IF IsSome(p.price) /\ IsSome(Val(p.price).originalAmount)
                       THEN String(Val(Val(p.price).originalAmount)) ELSE "",
   currency |-> IF IsSome(p.price) THEN Val(p.price).currency ELSE DEFAULT_PRODUCT_FORM.currency,
   imageUrl |-> IF IsSome(p.imageUrl) THEN Val(p.imageUrl) ELSE "",
   thumbnailUrl |-> IF IsSome(p.thumbnailUrl) THEN Val(p.thumbnailUrl) ELSE "",
   badges |-> JoinList(p.badges),
   tags |-> JoinList(p.tags),
   rating |-> IF IsSome(p.rating) THEN String(Val(p.rating)) ELSE "",
   reviewCount |-> IF IsSome(p.reviewCount) THEN String(Val(p.reviewCount)) ELSE "",
   inventoryStatus |-> DEFAULT_PRODUCT_FORM.inventoryStatus,
   featured |-> p.featured,
   serialNumber |-> optionalText(p, "serialNumber"),
   stock |-> IF IsSome(p.stock) THEN String(Val(p.stock)) ELSE ""]

\* ------------------------------------------------------------------- errors
\* A thrown value: an ApiError (with the parsed response body's message, if
\* any, and the status text) or a plain Error.
ApiErrorWithData == [isApi |-> TRUE, dataMessage |-> Some("Product name already exists."), message |-> "Conflict"]
ApiErrorBare == [isApi |-> TRUE, dataMessage |-> None, message |-> ""]
PlainError(msg) == [isApi |-> FALSE, dataMessage |-> None, message |-> msg]

\* the failures a request that was sent can end with
RequestFailures == {ApiErrorWithData, ApiErrorBare}

\* extractErrorMessage of useProductAdmin
extractErrorMessage(e) ==
  IF e.isApi
    THEN IF IsSome(e.dataMessage) THEN Val(e.dataMessage)
         ELSE IF e.message # "" THEN e.message ELSE "Request failed."
  ELSE e.message

\* ---------------------------------------------------------------- ApiClient
\* Headers are a function from header names to values.
InitialHeaders == [h \in {"Content-Type"} |-> "application/json"]

\* ApiClient.setHeader on a plain-object defaultHeaders
setHeader(hdrs, name, value) ==
  [h \in DOMAIN hdrs \cup {name} |-> IF h = name THEN value ELSE hdrs[h]]

Bearer(tok) == "Bearer " \o tok

\* ensureAuthHeader of productService (browser side).  With no token it calls
\* apiClient.removeHeader, a method ApiClient does not define: the call
\* throws a TypeError and the header set by an earlier call stays.
RemoveHeaderTypeError == "apiClient.removeHeader is not a function"

ensureAuthHeader(tok, hdrs) ==
  IF ~Truthy(tok)
    THEN [threw |-> TRUE, headers |-> hdrs]
    ELSE [threw |-> FALSE, headers |-> setHeader(hdrs, "Authorization", Bearer(Val(tok)))]

\* { ...defaults, ...override } of two plain header objects
spreadHeaders(hdrs, override) ==
  [h \in DOMAIN hdrs \cup DOMAIN override |-> IF h \in DOMAIN override THEN override[h] ELSE hdrs[h]]

\* ApiClient.mergeHeaders on plain-object defaults: with no per-request override
\* the stored defaults object itself, otherwise a new object
mergeHeaders(hdrs, override) ==
  IF ~IsSome(override) THEN hdrs ELSE spreadHeaders(hdrs, Val(override))

\* delete headers[name]
deleteHeader(hdrs, name) == [h \in DOMAIN hdrs \ {name} |-> hdrs[h]]

\* the bodies a request can carry
StreamableBodies == {"FormData", "Blob"}

\* ApiClient.request up to the fetch call.  requestInit.headers is the object
\* mergeHeaders returned; for a FormData / Blob body its Content-Type is
\* deleted in place, and with no override that object is the stored defaults.
\*   wire    - the headers the request carries
\*   headers - the client's default headers afterwards
request(hdrs, body, override) ==
  LET merged == mergeHeaders(hdrs, override)
      wire == IF body \in StreamableBodies THEN deleteHeader(merged, "Content-Type") ELSE merged
  IN [wire |-> wire, headers |-> IF ~IsSome(override) THEN wire ELSE hdrs]

\* ----------------------------------------------------------- productService
\* argument checks, <<>> when the arguments pass
IdMissing(id) == ~IsSome(id)
IdFalsy(id) == ~IsSome(id) \/ Val(id) = 0

GetByIdArgError(id) ==
  IF IdFalsy(id) THEN Some("A product id must be provided to fetch product details.") ELSE None

CreateArgError(payload) ==
  IF "name" \notin DOMAIN payload \/ payload.name = ""
    THEN Some("Product name is required.") ELSE None

UpdateArgError(id, payload) ==
  IF IdMissing(id) THEN Some("A product id must be provided to update a product.")
  ELSE IF DOMAIN payload = {} THEN Some("At least one field must be provided to update a product.")
  ELSE None

DeleteArgError(id) ==
  IF IdMissing(id) THEN Some("A product id must be provided to delete a product.") ELSE None

\* One productService operation up to the moment its request is handed to
\* fetch: argument check, ensureAuthHeader, then apiClient.request.
\*   sent    - a request went out (the operation now awaits the response)
\*   error   - the value thrown before any request, if any
\*   headers - the client's default headers afterwards
\*   wire    - the headers the request carries
GatewayCall(argError, tok, hdrs) ==
  IF IsSome(argError)
    THEN [sent |-> FALSE, error |-> Some(PlainError(Val(argError))), headers |-> hdrs, wire |-> hdrs]
  ELSE LET a == ensureAuthHeader(tok, hdrs) IN
    IF a.threw
      THEN [sent |-> FALSE, error |-> Some(PlainError(RemoveHeaderTypeError)),
            headers |-> a.headers, wire |-> hdrs]
      ELSE [sent |-> TRUE, error |-> None, headers |-> a.headers, wire |-> mergeHeaders(a.headers, None)]

\* ==================================================================== state
VARIABLES
  \* useProductAdmin's useState cells
  form, products, isFetching, isSaving, error, feedback, editingProduct,
  selectedImageFile, imagePreviewUrl, isUploadingImage,
  \* suspended async functions: handleSubmit, loadProducts, handleDelete and
  \* handleImageFileChange invocations waiting at an await
  subs, fetches, dels, previews,
  \* external calls of the submission in flight, in the order they happened
  calls,
  \* the handler or continuation that ran last and where it stopped
  ev,
  \* number of user events so far
  nEvents,
  \* localStorage's frontend_shop_token and the shared client's default headers
  token, defaultHeaders,
  \* gateway specification: the productService calls made so far
  gwCalls,
  \* client specification: the ApiClient.request calls made so far
  requests,
  \* ProductShowcase's useState cells, its effects' fetches and filter changes
  scSpec, scProducts, scIsLoading, scError, scUsingFallback, scFetches, scShown, scChanges,
  \* the list the last setProducts call of the showcase filtered: none, live, fallback
  scSource,
  \* applyClientFilters on its own: its two arguments and what it returned
  filterInput, filterSpec, filterOutput

adminVars == <<form, products, isFetching, isSaving, error, feedback, editingProduct,
               selectedImageFile, imagePreviewUrl, isUploadingImage,
               subs, fetches, dels, previews, calls, ev, nEvents>>
clientVars == <<token, defaultHeaders>>
gatewayVars == <<gwCalls, requests>>
showcaseVars == <<scSpec, scProducts, scIsLoading, scError, scUsingFallback, scFetches,
                  scShown, scChanges, scSource>>
filterVars == <<filterInput, filterSpec, filterOutput>>
vars == <<adminVars, clientVars, gatewayVars, showcaseVars, filterVars>>

\* The hook's state as one record, so that a handler is a function from the
\* state it runs in to the state it leaves.
St ==
  [form |-> form, products |-> products, isFetching |-> isFetching, isSaving |-> isSaving,
   error |-> error, feedback |-> feedback, editingProduct |-> editingProduct,
   selectedImageFile |-> selectedImageFile, imagePreviewUrl |-> imagePreviewUrl,
   isUploadingImage |-> isUploadingImage, subs |-> subs, fetches |-> fetches, dels |-> dels,
   previews |-> previews, calls |-> calls, ev |-> ev, nEvents |-> nEvents,
   token |-> token, defaultHeaders |-> defaultHeaders]

Commit(st) ==
  /\ form' = st.form
  /\ products' = st.products
  /\ isFetching' = st.isFetching
  /\ isSaving' = st.isSaving
  /\ error' = st.error
  /\ feedback' = st.feedback
  /\ editingProduct' = st.editingProduct
  /\ selectedImageFile' = st.selectedImageFile
  /\ imagePreviewUrl' = st.imagePreviewUrl
  /\ isUploadingImage' = st.isUploadingImage
  /\ subs' = st.subs
  /\ fetches' = st.fetches
  /\ dels' = st.dels
  /\ previews' = st.previews
  /\ calls' = st.calls
  /\ ev' = st.ev
  /\ nEvents' = st.nEvents
  /\ token' = st.token
  /\ defaultHeaders' = st.defaultHeaders

RemoveAt(seq, i) == SubSeq(seq, 1, i - 1) \o SubSeq(seq, i + 1, Len(seq))

Event(h, out) == [h |-> h, out |-> out]

\* ------------------------------------------------------------ useProductAdmin
isEditing == IsSome(editingProduct)
activeProductId == IF IsSome(editingProduct) THEN Some(Val(editingProduct).id) ELSE None

resetFormState(st) ==
  [st EXCEPT !.form = DEFAULT_PRODUCT_FORM,
             !.selectedImageFile = None,
             !.imagePreviewUrl = None]

\* items.find((item) => item.id === id) ?? null
FindById(items, id) ==
  IF \E k \in 1..Len(items) : items[k].id = id
    THEN Some(items[CHOOSE k \in 1..Len(items) :
                      items[k].id = id /\ \A j \in 1..(k - 1) : items[j].id # id])
    ELSE None

\* loadProducts up to its await: the list request is sent, or productService.list
\* throws before sending and the catch / finally run at once.
loadProducts(st, owner) ==
  LET g == GatewayCall(None, st.token, st.defaultHeaders) IN
  IF g.sent
    THEN [st EXCEPT !.isFetching = TRUE,
                    !.error = None,
                    !.defaultHeaders = g.headers,
                    !.fetches = Append(@, [owner |-> owner, newer |-> None])]
    ELSE [st EXCEPT !.isFetching = FALSE,
                    !.error = Some(extractErrorMessage(Val(g.error))),
                    !.defaultHeaders = g.headers]

\* a plausible slip: the catch also clears the draft
failSubmitResetsDraft(st, i, e) ==
  resetFormState([st EXCEPT !.error = Some(extractErrorMessage(e)),
                            !.isSaving = FALSE,
                            !.subs = RemoveAt(@, i),
                            !.calls = <<>>,
                            !.ev = Event(st.ev.h, "saveFailed")])

\* handleSubmit's outer catch and finally
failSubmit(st, i, e) ==
  [st EXCEPT !.error = Some(extractErrorMessage(e)),
             !.isSaving = FALSE,
             !.subs = RemoveAt(@, i),
             !.calls = <<>>,
             !.ev = Event(st.ev.h, "saveFailed")]

\* a plausible slip: the finally that clears isSaving is missing
finishSubmitStaysSaving(st, i) ==
  [st EXCEPT !.subs = RemoveAt(@, i),
             !.calls = <<>>]

\* handleSubmit's finally once loadProducts has returned
finishSubmit(st, i) ==
  [st EXCEPT !.isSaving = FALSE,
             !.subs = RemoveAt(@, i),
             !.calls = <<>>]

\* productService.update / create is called; on a throw before the request the
\* outer catch runs at once
issueSave(st, i) ==
  LET s == st.subs[i]
      editing == IsSome(s.editing)
      argErr == IF editing THEN UpdateArgError(Some(Val(s.editing).id), s.payload)
                ELSE CreateArgError(s.payload)
      g == GatewayCall(argErr, st.token, st.defaultHeaders)
  IN
  IF g.sent
    THEN [st EXCEPT !.subs[i].pc = "saving",
                    !.calls = Append(@, IF editing THEN "update" ELSE "create"),
                    !.defaultHeaders = g.headers,
                    !.ev = Event(st.ev.h, "saving")]
    ELSE failSubmit([st EXCEPT !.defaultHeaders = g.headers], i, Val(g.error))

\* handleSubmit from the thumbnail default to the first await after the upload:
\* in edit mode with a pending file and an old image, deleteProductImage is
\* called first; it awaits S3 only for an S3 URL with a key.
afterUpload(st, i) ==
  LET s == st.subs[i]
      p == IF ~Truthy(s.payload.thumbnailUrl) /\ Truthy(s.payload.imageUrl)
             THEN [s.payload EXCEPT !.thumbnailUrl = s.payload.imageUrl]
             ELSE s.payload
      st1 == [st EXCEPT !.subs[i].payload = p]
      old == IF IsSome(s.editing) THEN Val(s.editing).imageUrl ELSE None
  IN
  IF IsSome(s.editing) /\ IsSome(s.file) /\ Truthy(old)
       /\ isS3Image(Val(old)) /\ S3Key(Val(old)) # ""
    THEN [st1 EXCEPT !.subs[i].pc = "deletingOld",
                     !.calls = Append(@, "deleteImage"),
                     !.ev = Event(st.ev.h, "deletingOld")]
    ELSE issueSave(st1, i)

UploadFailureMessage == "Failed to upload image to S3. Please try again."

\* a plausible slip: the inner catch lacks its `return`
failUploadContinues(st, i) ==
  afterUpload([st EXCEPT !.error = Some(UploadFailureMessage),
                         !.isUploadingImage = FALSE,
                         !.ev = Event(st.ev.h, "uploadFailed")], i)

\* the inner catch of the upload
failUpload(st, i) ==
  [st EXCEPT !.error = Some(UploadFailureMessage),
             !.isSaving = FALSE,
             !.isUploadingImage = FALSE,
             !.subs = RemoveAt(@, i),
             !.calls = <<>>,
             !.ev = Event(st.ev.h, "uploadFailed")]

\* uploadImageToS3's type check
startsWithImage(type) == type \in AllowedTypes

\* handleSubmit from the submit event to its first await
handleSubmit(st) ==
  LET st0 == [st EXCEPT !.error = None, !.feedback = None, !.ev = Event("handleSubmit", "")]
      r == buildPayload(st.form)
  IN
  IF IsSome(r.error)
    THEN [st0 EXCEPT !.error = r.error, !.ev = Event("handleSubmit", "rejected")]
    ELSE
      LET st1 == [st0 EXCEPT !.isSaving = TRUE,
                             !.subs = Append(@, [pc |-> "start",
                                                 payload |-> r.payload,
                                                 editing |-> st.editingProduct,
                                                 file |-> st.selectedImageFile])]
          i == Len(st1.subs)
      IN
      IF IsSome(st.selectedImageFile)
        THEN IF startsWithImage(Val(st.selectedImageFile).type)
               THEN [st1 EXCEPT !.isUploadingImage = TRUE,
                                !.subs[i].pc = "uploading",
                                !.calls = Append(@, "upload"),
                                !.ev = Event("handleSubmit", "uploading")]
               ELSE failUpload(st1, i)
        ELSE afterUpload(st1, i)

\* the upload resolved: payload and draft take the uploaded URL
uploadResolved(st, i) ==
  LET url == UploadedUrl(Val(st.subs[i].file))
      st1 == [st EXCEPT !.subs[i].payload.imageUrl = Some(url),
                        !.subs[i].payload.thumbnailUrl = Some(url),
                        !.form.imageUrl = url,
                        !.form.thumbnailUrl = url,
                        !.isUploadingImage = FALSE,
                        !.calls = Append(@, "uploadOk"),
                        !.ev = Event("upload", "")]
  IN afterUpload(st1, i)

\* the upload rejected: the inner catch runs
uploadRejected(st, i) == failUpload([st EXCEPT !.ev = Event("uploadRejected", "")], i)

\* a plausible slip: no try / catch around deleteProductImage
oldImageDeleteFailurePropagates(st, i, ok) ==
  LET st1 == [st EXCEPT !.calls = Append(@, IF ok THEN "deleteImageOk" ELSE "deleteImageFail"),
                        !.ev = Event("deleteOld", "")]
  IN IF ok THEN issueSave(st1, i)
     ELSE failSubmit(st1, i, PlainError("Failed to delete image from S3: Unknown error"))

\* deleteProductImage settled; a rejection is caught and only logged
oldImageDeleteSettled(st, i, ok) ==
  issueSave([st EXCEPT !.calls = Append(@, IF ok THEN "deleteImageOk" ELSE "deleteImageFail"),
                       !.ev = Event("deleteOld", "")], i)

UpdatedFeedback(name) == "Product \"" \o name \o "\" updated."

\* the create / update request resolved
saveResolved(st, i) ==
  LET s == st.subs[i]
      st1 == IF IsSome(s.editing)
               THEN resetFormState([st EXCEPT !.feedback = Some(UpdatedFeedback(Val(s.editing).name)),
                                              !.editingProduct = None])
               ELSE resetFormState([st EXCEPT !.feedback = Some("Product created successfully.")])
      st2 == loadProducts([st1 EXCEPT !.calls = Append(@, "saveOk")], "submit")
  IN
  IF Len(st2.fetches) > Len(st.fetches)
    THEN [st2 EXCEPT !.subs[i].pc = "refetching",
                     !.calls = Append(@, "list"),
                     !.ev = Event("save", "saved")]
    ELSE finishSubmit([st2 EXCEPT !.ev = Event("save", "savedListThrew")], i)

saveRejected(st, i, e) == failSubmit([st EXCEPT !.ev = Event("save", "")], i, e)

\* index of the submission awaiting its refetch
RefetchingSub(st) ==
  IF \E i \in 1..Len(st.subs) : st.subs[i].pc = "refetching"
    THEN CHOOSE i \in 1..Len(st.subs) :
           st.subs[i].pc = "refetching" /\ \A j \in 1..(i - 1) : st.subs[j].pc # "refetching"
    ELSE 0

\* what runs after `await loadProducts()` in the caller
afterLoad(st, owner) ==
  IF owner = "submit" /\ RefetchingSub(st) # 0 THEN finishSubmit(st, RefetchingSub(st)) ELSE st

\* history kept with the fetches in flight: when fetch k answers and no fetch
\* started after it has answered yet, the fetches started before it note the
\* answer of a fetch newer than them
noteNewer(fs, k, items) ==
  [j \in 1..Len(fs) |->
     IF j < k /\ ~IsSome(fs[k].newer) THEN [fs[j] EXCEPT !.newer = Some(items)] ELSE fs[j]]

\* the list request of loadProducts resolved with items
loadResolved(st, k, items) ==
  LET owner == st.fetches[k].owner
      st1 == [st EXCEPT !.products = items,
                        !.editingProduct = IF IsSome(@) THEN FindById(items, Val(@).id) ELSE @,
                        !.isFetching = FALSE,
                        !.fetches = RemoveAt(noteNewer(@, k, items), k),
                        !.ev = Event("loadProducts", "loaded")]
  IN afterLoad(st1, owner)

loadRejected(st, k, e) ==
  LET owner == st.fetches[k].owner
      st1 == [st EXCEPT !.error = Some(extractErrorMessage(e)),
                        !.isFetching = FALSE,
                        !.fetches = RemoveAt(@, k),
                        !.ev = Event("loadProducts", "loadFailed")]
  IN afterLoad(st1, owner)

startEditing(st, p) ==
  [st EXCEPT !.editingProduct = Some(p),
             !.form = productToFormState(p),
             !.feedback = None,
             !.error = None,
             !.ev = Event("startEditing", "")]

cancelEditing(st) ==
  [resetFormState([st EXCEPT !.editingProduct = None]) EXCEPT !.feedback = None]

\* ProductAdminPanel.handleCloseForm
handleCloseForm(st) ==
  LET st1 == [st EXCEPT !.ev = Event("handleCloseForm", "")] IN
  IF IsSome(st.editingProduct) THEN cancelEditing(st1) ELSE st1

handleInputChange(st, field, value) ==
  [st EXCEPT !.form = [@ EXCEPT ![field] = value],
             !.ev = Event("handleInputChange", "")]

\* handleImageFileChange up to its await
handleImageFileChange(st, file) ==
  LET st1 == [st EXCEPT !.selectedImageFile = file, !.ev = Event("handleImageFileChange", "")] IN
  IF ~IsSome(file)
    THEN [st1 EXCEPT !.imagePreviewUrl = None]
  ELSE IF ~validateImageFile(Val(file)).valid
    THEN [st1 EXCEPT !.error = validateImageFile(Val(file)).error,
                     !.selectedImageFile = None,
                     !.ev = Event("handleImageFileChange", "invalid")]
  ELSE [st1 EXCEPT !.previews = Append(@, [file |-> Val(file)]),
                   !.ev = Event("handleImageFileChange", "reading")]

previewResolved(st, k) ==
  [st EXCEPT !.imagePreviewUrl = Some(PreviewUrlOf(st.previews[k].file)),
             !.form.imageUrl = "",
             !.form.thumbnailUrl = "",
             !.error = None,
             !.previews = RemoveAt(@, k),
             !.ev = Event("preview", "shown")]

previewRejected(st, k) ==
  [st EXCEPT !.error = Some("Failed to create image preview"),
             !.selectedImageFile = None,
             !.previews = RemoveAt(@, k),
             !.ev = Event("preview", "failed")]

\* handleDelete from the click to its await
handleDelete(st, productId, confirmed) ==
  LET st0 == [st EXCEPT !.ev = Event("handleDelete", "declined")] IN
  IF IdFalsy(productId) \/ ~confirmed THEN st0
  ELSE
    LET g == GatewayCall(DeleteArgError(productId), st.token, st.defaultHeaders) IN
    IF g.sent
      THEN [st0 EXCEPT !.error = None,
                       !.defaultHeaders = g.headers,
                       !.dels = Append(@, [id |-> Val(productId), editing |-> st.editingProduct]),
                       !.ev = Event("handleDelete", "deleting")]
      ELSE [st0 EXCEPT !.error = Some(extractErrorMessage(Val(g.error))),
                       !.defaultHeaders = g.headers,
                       !.ev = Event("handleDelete", "deleteFailed")]

deleteResolved(st, k) ==
  LET d == st.dels[k]
      st0 == [st EXCEPT !.dels = RemoveAt(@, k), !.ev = Event("delete", "deleted")]
      st1 == IF IsSome(d.editing) /\ Val(d.editing).id = d.id
               THEN resetFormState([st0 EXCEPT !.editingProduct = None])
               ELSE st0
  IN loadProducts([st1 EXCEPT !.feedback = Some("Product deleted successfully.")], "delete")

deleteRejected(st, k, e) ==
  [st EXCEPT !.error = Some(extractErrorMessage(e)),
             !.dels = RemoveAt(@, k),
             !.ev = Event("delete", "deleteFailed")]

\* ============================================================ ProductShowcase
\* Text is searched character by character: the characters of the literals the
\* catalog and the search box hold.
Chars(s) ==
  CASE s = "" -> <<>>
    [] s = " " -> <<" ">>
    [] s = "Mug" -> <<"M", "u", "g">>
    [] s = "mug" -> <<"m", "u", "g">>
    [] s = "Cup" -> <<"C", "u", "p">>
    [] s = "Kit" -> <<"K", "i", "t">>
    [] s = "u" -> <<"u">>
    [] s = " U " -> <<" ", "U", " ">>
    [] s = "kitchen" -> <<"k", "i", "t", "c", "h", "e", "n">>
    [] s = "Kitchen" -> <<"K", "i", "t", "c", "h", "e", "n">>
    [] s = "sale" -> <<"s", "a", "l", "e">>
    [] s = "new" -> <<"n", "e", "w">>
    [] s = "design" -> <<"d", "e", "s", "i", "g", "n">>
    [] OTHER -> <<s>>

LowerChar(c) ==
  CASE c = "M" -> "m"
    [] c = "C" -> "c"
    [] c = "K" -> "k"
    [] c = "U" -> "u"
    [] OTHER -> c

toLowerCase(cs) == [k \in 1..Len(cs) |-> LowerChar(cs[k])]

RECURSIVE trimStart(_)
trimStart(cs) == IF cs # <<>> /\ Head(cs) = " " THEN trimStart(Tail(cs)) ELSE cs

RECURSIVE trimEnd(_)
trimEnd(cs) ==
  IF cs # <<>> /\ cs[Len(cs)] = " " THEN trimEnd(SubSeq(cs, 1, Len(cs) - 1)) ELSE cs

trimChars(cs) == trimEnd(trimStart(cs))

\* haystack.includes(needle)
includes(hay, needle) ==
  \E k \in 1..(Len(hay) - Len(needle) + 1) : SubSeq(hay, k, k + Len(needle) - 1) = needle

RECURSIVE joinWithSpace(_)
joinWithSpace(parts) ==
  IF parts = <<>> THEN <<>>
  ELSE IF Len(parts) = 1 THEN parts[1]
  ELSE parts[1] \o <<" ">> \o joinWithSpace(Tail(parts))

\* Array.prototype.filter
RECURSIVE FilterSeq(_, _)
FilterSeq(seq, keep) ==
  IF seq = <<>> THEN <<>>
  ELSE IF Head(seq) \in keep THEN <<Head(seq)>> \o FilterSeq(Tail(seq), keep)
  ELSE FilterSeq(Tail(seq), keep)

SeqRange(seq) == {seq[k] : k \in 1..Len(seq)}

\* [name, summary, description, serialNumber, ...tags, ...badges].filter(Boolean).join(" ")
textField(product, field) ==
  IF field \in DOMAIN product THEN Chars(product[field]) ELSE <<>>

combinedText(product) ==
  LET parts == <<Chars(product.name), textField(product, "summary"),
                 textField(product, "description"), textField(product, "serialNumber")>>
                 \o [k \in 1..Len(product.tags) |-> Chars(product.tags[k])]
                 \o [k \in 1..Len(product.badges) |-> Chars(product.badges[k])]
  IN toLowerCase(joinWithSpace(FilterSeq(parts, SeqRange(parts) \ {<<>>})))

lowerTags(product) == {toLowerCase(Chars(product.tags[k])) : k \in 1..Len(product.tags)}

\* the value a comparator subtracts: a number or +/- Infinity
Finite(n) == [inf |-> 0, val |-> n]
PlusInfinity == [inf |-> 1, val |-> 0]
MinusInfinity == [inf |-> 0 - 1, val |-> 0]

\* sign of a - b in IEEE arithmetic; Infinity - Infinity is NaN, which sort reads as 0
SignOfDifference(a, b) ==
  IF a.inf # 0 \/ b.inf # 0
    THEN IF a.inf = b.inf THEN 0 ELSE IF a.inf > b.inf THEN 1 ELSE 0 - 1
  ELSE IF a.val > b.val THEN 1 ELSE IF a.val < b.val THEN 0 - 1 ELSE 0

BoolNumber(b) == IF b THEN 1 ELSE 0

\* a plausible slip: a missing rating sorts below every rating
ratingOrMinusOne(p) == IF IsSome(p.rating) THEN Val(p.rating) ELSE 0 - 1

\* a.rating ?? 0
ratingOf(p) == IF IsSome(p.rating) THEN Val(p.rating) ELSE 0

\* a plausible slip: price_desc reads a missing price as +Infinity
priceDescKeyMissingHighest(p) ==
  IF IsSome(p.price) THEN Finite(Val(p.price).amount) ELSE PlusInfinity

\* a.price?.amount ?? -Infinity
priceDescKey(p) == IF IsSome(p.price) THEN Finite(Val(p.price).amount) ELSE MinusInfinity

\* the comparator of the switch on options.sort
compareProducts(sort, a, b) ==
  CASE sort = "price_asc" ->
         SignOfDifference(IF IsSome(a.price) THEN Finite(Val(a.price).amount) ELSE PlusInfinity,
                          IF IsSome(b.price) THEN Finite(Val(b.price).amount) ELSE PlusInfinity)
    [] sort = "price_desc" ->
         SignOfDifference(priceDescKey(b), priceDescKey(a))
    [] sort = "rating" ->
         SignOfDifference(Finite(ratingOf(b)), Finite(ratingOf(a)))
    \* no product carries createdAt (mapProduct does not copy it): both dates are 0
    [] sort = "newest" -> SignOfDifference(Finite(0), Finite(0))
    [] OTHER -> SignOfDifference(Finite(BoolNumber(b.featured)), Finite(BoolNumber(a.featured)))

\* a plausible slip: an unstable sort, an element goes before the elements it
\* compares equal to
RECURSIVE insertSortedUnstable(_, _, _)
insertSortedUnstable(sort, sorted, x) ==
  IF sorted = <<>> THEN <<x>>
  ELSE IF compareProducts(sort, sorted[Len(sorted)], x) >= 0
    THEN Append(insertSortedUnstable(sort, SubSeq(sorted, 1, Len(sorted) - 1), x),
                sorted[Len(sorted)])
  ELSE Append(sorted, x)

\* Array.prototype.sort is stable: an element goes after everything already
\* placed that does not compare greater than it
RECURSIVE insertSorted(_, _, _)
insertSorted(sort, sorted, x) ==
  IF sorted = <<>> THEN <<x>>
  ELSE IF compareProducts(sort, sorted[Len(sorted)], x) > 0
    THEN Append(insertSorted(sort, SubSeq(sorted, 1, Len(sorted) - 1), x), sorted[Len(sorted)])
  ELSE Append(sorted, x)

\* a plausible slip: the sort stage is skipped
sortProductsSkipped(sort, seq) == seq

\* filtered.sort(comparator) of the switch on options.sort
RECURSIVE sortProducts(_, _)
sortProducts(sort, seq) ==
  IF seq = <<>> THEN <<>>
  ELSE insertSorted(sort, sortProducts(sort, SubSeq(seq, 1, Len(seq) - 1)), seq[Len(seq)])

\* a plausible slip: the end index is taken as inclusive
sliceInclusiveEnd(seq, start, end) ==
  SubSeq(seq, start + 1, IF end + 1 < Len(seq) THEN end + 1 ELSE Len(seq))

\* Array.prototype.slice(start, end) with 0-based, non-negative indexes
slice(seq, start, end) ==
  SubSeq(seq, start + 1, IF end < Len(seq) THEN end ELSE Len(seq))

\* a plausible slip: a product without a price passes the price bounds
priceInBoundOrMissing(p, min, max) ==
  \/ ~IsSome(p.price)
  \/ /\ (IsSome(min) => Val(p.price).amount >= Val(min))
     /\ (IsSome(max) => Val(p.price).amount <= Val(max))

\* the minPrice and maxPrice stages: typeof price === "number" ? price >= min : false
priceInBound(p, min, max) ==
  /\ (IsSome(min) => IsSome(p.price) /\ Val(p.price).amount >= Val(min))
  /\ (IsSome(max) => IsSome(p.price) /\ Val(p.price).amount <= Val(max))

\* a page number num / den; Math.floor of it
Rational(num, den) == [num |-> num, den |-> den]
mathFloor(r) == r.num \div r.den

applyClientFilters(productList, options) ==
  LET all == SeqRange(productList)
      searchQuery == IF IsSome(options.search)
                       THEN toLowerCase(trimChars(Chars(Val(options.search)))) ELSE <<>>
      bySearch == IF searchQuery # <<>>
                    THEN {p \in all : includes(combinedText(p), searchQuery)} ELSE all
      tagSet == IF IsSome(options.tags)
                  THEN {toLowerCase(Chars(Val(options.tags)[k])) : k \in 1..Len(Val(options.tags))}
                  ELSE {}
      byTags == IF IsSome(options.tags) /\ Len(Val(options.tags)) > 0
                  THEN {p \in bySearch : lowerTags(p) \cap tagSet # {}} ELSE bySearch
      byCategory == IF Truthy(options.category)
                      THEN {p \in byTags : toLowerCase(Chars(Val(options.category))) \in lowerTags(p)}
                      ELSE byTags
      byMin == {p \in byCategory : priceInBound(p, options.minPrice, None)}
      byMax == {p \in byMin : priceInBound(p, None, options.maxPrice)}
      byFeatured == IF IsSome(options.featured)
                      THEN {p \in byMax : p.featured = Val(options.featured)} ELSE byMax
      sorted == sortProducts(options.sort, FilterSeq(productList, byFeatured))
      limit == options.limit
  IN
  IF IsSome(limit) /\ Val(limit) > 0
    THEN LET floored == IF IsSome(options.page) /\ Val(options.page).num # 0
                          THEN mathFloor(Val(options.page)) ELSE 1
             page == IF floored > 1 THEN floored ELSE 1
             start == (page - 1) * Val(limit)
         IN slice(sorted, start, start + Val(limit))
    ELSE sorted

\* a filter spec with nothing set
NoFilters ==
  [search |-> None, category |-> None, tags |-> None, minPrice |-> None, maxPrice |-> None,
   sort |-> "featured", featured |-> None, page |-> None, limit |-> None]

FiltersAtRest == filterInput = <<>> /\ filterSpec = NoFilters /\ filterOutput = None

\* the bundled fallback dataset and the props the page is rendered with
F1 == [id |-> 3, name |-> "Kit",
       price |-> Some([amount |-> 49, originalAmount |-> Some(79), currency |-> "USD"]),
       imageUrl |-> None, thumbnailUrl |-> None,
       tags |-> <<"design">>, badges |-> <<>>,
       rating |-> Some(5), reviewCount |-> Some(124), stock |-> None,
       featured |-> TRUE]
FALLBACK_PRODUCTS == <<F1>>

DefaultLimit == 12

\* the filter spec the effect builds from props and state
filterOptions(spec) ==
  [search |-> Some(spec.search), category |-> spec.category, tags |-> None,
   minPrice |-> None, maxPrice |-> None, sort |-> spec.sort, featured |-> None,
   page |-> None, limit |-> Some(DefaultLimit)]

InitialSpec == [search |-> "", sort |-> "featured", category |-> None]

\* extractErrorMessage of ProductShowcase
showcaseErrorMessage(e) ==
  IF e.isApi
    THEN IF IsSome(e.dataMessage) THEN Val(e.dataMessage)
         ELSE IF e.message # "" THEN e.message ELSE "Unable to load products."
  ELSE e.message

ScSt ==
  [spec |-> scSpec, products |-> scProducts, isLoading |-> scIsLoading, error |-> scError,
   usingFallback |-> scUsingFallback, fetches |-> scFetches, shown |-> scShown,
   changes |-> scChanges, source |-> scSource, ev |-> ev, token |-> token,
   defaultHeaders |-> defaultHeaders]

ScCommit(st) ==
  /\ scSpec' = st.spec
  /\ scProducts' = st.products
  /\ scIsLoading' = st.isLoading
  /\ scError' = st.error
  /\ scUsingFallback' = st.usingFallback
  /\ scFetches' = st.fetches
  /\ scShown' = st.shown
  /\ scChanges' = st.changes
  /\ scSource' = st.source
  /\ ev' = st.ev
  /\ token' = st.token
  /\ defaultHeaders' = st.defaultHeaders

\* a plausible slip: the catch shows the fallback but leaves usingFallback alone
showcaseRejectedFlagUnset(st, f, e) ==
  [st EXCEPT !.products = IF Len(FALLBACK_PRODUCTS) > 0
                            THEN applyClientFilters(FALLBACK_PRODUCTS, filterOptions(f.spec)) ELSE @,
             !.source = IF Len(FALLBACK_PRODUCTS) > 0 THEN "fallback" ELSE @,
             !.error = Some(showcaseErrorMessage(e)),
             !.isLoading = FALSE,
             !.shown = f.gen,
             !.ev = Event("showcaseFetch", "failed")]

\* the catch branch of the effect's loadProducts for a fetch that is not cancelled
showcaseRejected(st, f, e) ==
  [st EXCEPT !.products = IF Len(FALLBACK_PRODUCTS) > 0
                            THEN applyClientFilters(FALLBACK_PRODUCTS, filterOptions(f.spec)) ELSE @,
             !.usingFallback = IF Len(FALLBACK_PRODUCTS) > 0 THEN TRUE ELSE @,
             !.source = IF Len(FALLBACK_PRODUCTS) > 0 THEN "fallback" ELSE @,
             !.error = Some(showcaseErrorMessage(e)),
             !.isLoading = FALSE,
             !.shown = f.gen,
             !.ev = Event("showcaseFetch", "failed")]

\* the try branch after the await for a fetch that is not cancelled
showcaseResolved(st, f, items) ==
  IF Len(items) = 0 /\ Len(FALLBACK_PRODUCTS) > 0
    THEN [st EXCEPT !.products = applyClientFilters(FALLBACK_PRODUCTS, filterOptions(f.spec)),
                    !.usingFallback = TRUE,
                    !.source = "fallback",
                    !.error = None,
                    !.isLoading = FALSE,
                    !.shown = f.gen,
                    !.ev = Event("showcaseFetch", "fallback")]
    ELSE [st EXCEPT !.products = applyClientFilters(items, filterOptions(f.spec)),
                    !.usingFallback = FALSE,
                    !.source = "live",
                    !.isLoading = FALSE,
                    !.shown = f.gen,
                    !.ev = Event("showcaseFetch", "live")]

\* a plausible slip: the cancelled flag is never consulted
neverCancelled(f) == FALSE

\* `if (cancelled) return` and the guarded catch / finally: a fetch whose effect
\* was cleaned up writes nothing
isCancelled(f) == f.cancelled

showcaseSettled(st, k, ok, items, e) ==
  LET f == st.fetches[k]
      st1 == [st EXCEPT !.fetches = RemoveAt(@, k), !.ev = Event("showcaseFetch", "stale")]
  IN
  IF isCancelled(f) THEN st1
  ELSE IF ok THEN showcaseResolved(st1, f, items)
  ELSE showcaseRejected(st1, f, e)

\* the effect body: a new closure with cancelled = false runs loadProducts up to
\* its await
showcaseEffect(st) ==
  LET gen == st.changes + 1
      f == [spec |-> st.spec, cancelled |-> FALSE, gen |-> gen]
      st1 == [st EXCEPT !.isLoading = TRUE, !.error = None, !.usingFallback = FALSE,
                        !.changes = gen]
      g == GatewayCall(None, st.token, st.defaultHeaders)
  IN
  IF g.sent
    THEN [st1 EXCEPT !.fetches = Append(@, f), !.defaultHeaders = g.headers]
    ELSE showcaseRejected([st1 EXCEPT !.defaultHeaders = g.headers], f, Val(g.error))

\* a dependency changed: the previous effect's cleanup sets its cancelled flag,
\* then the effect runs again
showcaseSpecChanged(st, spec) ==
  LET st1 == [st EXCEPT !.spec = spec,
                        !.fetches = [k \in 1..Len(@) |-> [@[k] EXCEPT !.cancelled = TRUE]]]
  IN [showcaseEffect(st1) EXCEPT !.ev = Event("showcaseSpec", "")]

\* ================================================================== actions
Tokens == {"t1", "t2"}

\* what the user can type: a field and the value it gets
FieldChoices ==
  { <<"name", "Mug">>, <<"name", " ">>,
    <<"price", "20">>, <<"price", "0">>, <<"price", "abc">>,
    <<"originalPrice", "abc">>,
    <<"rating", "-1">>,
    <<"reviewCount", "abc">>,
    <<"stock", "abc">>,
    <<"imageUrl", ExtUrl>> }

\* a plausible slip: the submit button lacks disabled={isSaving}
SubmitAlwaysEnabled == TRUE

\* the submit button of ProductAdminForm is disabled while isSaving
SubmitEnabled == ~isSaving

\* the file input is disabled while uploading or saving
FileInputEnabled == ~(isUploadingImage \/ isSaving)

\* the image URL inputs are disabled while uploading
UrlInputEnabled(field) == field \in {"imageUrl", "thumbnailUrl"} => ~isUploadingImage

\* Close and Cancel are disabled while isSaving
CloseEnabled == ~isSaving

\* the Refresh button is disabled while isFetching
RefreshEnabled == ~isFetching

\* the Edit button of a list item is disabled for the product being edited
EditEnabled(p) == activeProductId # Some(p.id)

Unused == UNCHANGED <<gatewayVars, showcaseVars, filterVars>>

\* a handler run by a user event
UserEvent(st) ==
  /\ nEvents < MaxEvents
  /\ Commit([st EXCEPT !.nEvents = @ + 1])

InputChange ==
  \E c \in FieldChoices :
    /\ UrlInputEnabled(c[1])
    /\ UserEvent(handleInputChange(St, c[1], c[2]))
    /\ Unused

ImageFileChange ==
  \E file \in {None} \cup {Some(f) : f \in Files} :
    /\ FileInputEnabled
    /\ Len(previews) < MaxPreviews
    /\ UserEvent(handleImageFileChange(St, file))
    /\ Unused

PreviewDone ==
  \E k \in 1..Len(previews) : Commit(previewResolved(St, k)) /\ Unused

PreviewFail ==
  \E k \in 1..Len(previews) : Commit(previewRejected(St, k)) /\ Unused

Submit ==
  /\ SubmitEnabled
  /\ Len(subs) < MaxInFlight
  /\ UserEvent(handleSubmit(St))
  /\ Unused

UploadDone ==
  \E i \in 1..Len(subs) :
    /\ subs[i].pc = "uploading"
    /\ Commit(uploadResolved(St, i))
    /\ Unused

UploadFail ==
  \E i \in 1..Len(subs) :
    /\ subs[i].pc = "uploading"
    /\ Commit(uploadRejected(St, i))
    /\ Unused

OldImageDeleteSettle ==
  \E i \in 1..Len(subs), ok \in BOOLEAN :
    /\ subs[i].pc = "deletingOld"
    /\ Commit(oldImageDeleteSettled(St, i, ok))
    /\ Unused

SaveDone ==
  \E i \in 1..Len(subs) :
    /\ subs[i].pc = "saving"
    /\ Len(fetches) < MaxFetches
    /\ Commit(saveResolved(St, i))
    /\ Unused

SaveFail ==
  \E i \in 1..Len(subs), e \in RequestFailures :
    /\ subs[i].pc = "saving"
    /\ Commit(saveRejected(St, i, e))
    /\ Unused

Refresh ==
  /\ RefreshEnabled
  /\ Len(fetches) < MaxFetches
  /\ UserEvent([loadProducts(St, "refresh") EXCEPT !.ev = Event("refresh", "")])
  /\ Unused

LoadDone ==
  \E k \in 1..Len(fetches), items \in Catalogs :
    Commit(loadResolved(St, k, items)) /\ Unused

LoadFail ==
  \E k \in 1..Len(fetches), e \in RequestFailures :
    Commit(loadRejected(St, k, e)) /\ Unused

StartEditing ==
  \E k \in 1..Len(products) :
    /\ EditEnabled(products[k])
    /\ UserEvent(startEditing(St, products[k]))
    /\ Unused

CloseForm ==
  /\ CloseEnabled
  /\ UserEvent(handleCloseForm(St))
  /\ Unused

Delete ==
  \E k \in 1..Len(products), confirmed \in BOOLEAN :
    /\ Len(dels) < MaxDeletes
    /\ UserEvent(handleDelete(St, Some(products[k].id), confirmed))
    /\ Unused

DeleteDone ==
  \E k \in 1..Len(dels) :
    /\ Len(fetches) < MaxFetches
    /\ Commit(deleteResolved(St, k))
    /\ Unused

DeleteFail ==
  \E k \in 1..Len(dels), e \in RequestFailures :
    Commit(deleteRejected(St, k, e)) /\ Unused

\* ------------------------------------------------------------ initial states
\* the hook after its first render, before the mount effect
Unmounted ==
  [form |-> DEFAULT_PRODUCT_FORM, products |-> <<>>, isFetching |-> FALSE, isSaving |-> FALSE,
   error |-> None, feedback |-> None, editingProduct |-> None, selectedImageFile |-> None,
   imagePreviewUrl |-> None, isUploadingImage |-> FALSE, subs |-> <<>>, fetches |-> <<>>,
   dels |-> <<>>, previews |-> <<>>, calls |-> <<>>, ev |-> Event("mount", ""), nEvents |-> 0,
   token |-> None, defaultHeaders |-> InitialHeaders]

ShowcaseUnmounted ==
  [spec |-> InitialSpec, products |-> <<>>, isLoading |-> FALSE, error |-> None,
   usingFallback |-> FALSE, fetches |-> <<>>, shown |-> 0, changes |-> 0, source |-> "none",
   ev |-> Event("mount", ""), token |-> None, defaultHeaders |-> InitialHeaders]

AdminAtRest ==
  /\ form = DEFAULT_PRODUCT_FORM /\ products = <<>> /\ isFetching = FALSE /\ isSaving = FALSE
  /\ error = None /\ feedback = None /\ editingProduct = None /\ selectedImageFile = None
  /\ imagePreviewUrl = None /\ isUploadingImage = FALSE /\ subs = <<>> /\ fetches = <<>>
  /\ dels = <<>> /\ previews = <<>> /\ calls = <<>> /\ nEvents = 0

ShowcaseAtRest ==
  /\ scSpec = InitialSpec /\ scProducts = <<>> /\ scIsLoading = FALSE /\ scError = None
  /\ scUsingFallback = FALSE /\ scFetches = <<>> /\ scShown = 0 /\ scChanges = 0
  /\ scSource = "none"

\* the admin page once useProductAdmin's mount effect has called loadProducts
Init ==
  /\ \E t \in {None, Some("t1")} :
       LET st == loadProducts([Unmounted EXCEPT !.token = t], "mount") IN
       /\ form = st.form /\ products = st.products /\ isFetching = st.isFetching
       /\ isSaving = st.isSaving /\ error = st.error /\ feedback = st.feedback
       /\ editingProduct = st.editingProduct /\ selectedImageFile = st.selectedImageFile
       /\ imagePreviewUrl = st.imagePreviewUrl /\ isUploadingImage = st.isUploadingImage
       /\ subs = st.subs /\ fetches = st.fetches /\ dels = st.dels /\ previews = st.previews
       /\ calls = st.calls /\ ev = st.ev /\ nEvents = st.nEvents
       /\ token = st.token /\ defaultHeaders = st.defaultHeaders
  /\ gwCalls = <<>> /\ requests = <<>>
  /\ FiltersAtRest
  /\ ShowcaseAtRest

Next ==
  \/ InputChange
  \/ ImageFileChange
  \/ PreviewDone
  \/ PreviewFail
  \/ Submit
  \/ UploadDone
  \/ UploadFail
  \/ OldImageDeleteSettle
  \/ SaveDone
  \/ SaveFail
  \/ Refresh
  \/ LoadDone
  \/ LoadFail
  \/ StartEditing
  \/ CloseForm
  \/ Delete
  \/ DeleteDone
  \/ DeleteFail

Spec == Init /\ [][Next]_vars

\* ------------------------------------------------------ showcase specification
ScSearches == {"", "mug", " U "}
ScSorts == {"featured", "price_asc"}
ScSpecs == {[search |-> q, sort |-> o, category |-> None] : q \in ScSearches, o \in ScSorts}

AdminUnused == UNCHANGED <<form, products, isFetching, isSaving, error, feedback, editingProduct,
                            selectedImageFile, imagePreviewUrl, isUploadingImage,
                            subs, fetches, dels, previews, calls, nEvents>>

\* the search box or the sort select changed (setSearch / setSortBy): the
\* effect re-runs because a dependency differs
ShowcaseSpecChange ==
  \E spec \in ScSpecs :
    /\ spec # scSpec
    /\ scChanges < MaxSpecChanges
    /\ ScCommit(showcaseSpecChanged(ScSt, spec))
    /\ AdminUnused /\ UNCHANGED <<gatewayVars, filterVars>>

ShowcaseFetchDone ==
  \E k \in 1..Len(scFetches), items \in Catalogs \cup {<<>>} :
    /\ ScCommit(showcaseSettled(ScSt, k, TRUE, items, ApiErrorBare))
    /\ AdminUnused /\ UNCHANGED <<gatewayVars, filterVars>>

ShowcaseFetchFail ==
  \E k \in 1..Len(scFetches), e \in RequestFailures :
    /\ ScCommit(showcaseSettled(ScSt, k, FALSE, <<>>, e))
    /\ AdminUnused /\ UNCHANGED <<gatewayVars, filterVars>>

\* the storefront once ProductShowcase's effect has run for the first time
InitShowcase ==
  /\ \E t \in {None, Some("t1")} :
       LET st == showcaseEffect([ShowcaseUnmounted EXCEPT !.token = t]) IN
       /\ scSpec = st.spec /\ scProducts = st.products /\ scIsLoading = st.isLoading
       /\ scError = st.error /\ scUsingFallback = st.usingFallback /\ scFetches = st.fetches
       /\ scShown = st.shown /\ scChanges = st.changes /\ scSource = st.source /\ ev = st.ev
       /\ token = st.token /\ defaultHeaders = st.defaultHeaders
  /\ gwCalls = <<>> /\ requests = <<>>
  /\ FiltersAtRest
  /\ AdminAtRest

NextShowcase ==
  \/ ShowcaseSpecChange
  \/ ShowcaseFetchDone
  \/ ShowcaseFetchFail

SpecShowcase == InitShowcase /\ [][NextShowcase]_vars

\* ------------------------------------------------------- gateway specification
GatewayIds == {None, Some(0), Some(1)}
GatewayPayloads == {EmptyPayload, [name |-> ""], [name |-> "Mug", price |-> 20]}

\* a productService call as the gateway specification records it
CallRecord(op, args, valid, tok, g) ==
  [op |-> op, id |-> args.id, payload |-> args.payload, valid |-> valid, token |-> tok,
   sent |-> g.sent, wire |-> g.wire]

\* the arguments of a productService call
Args(id, payload) == [id |-> id, payload |-> payload]

GatewayInvoke(op, args, argError) ==
  LET g == GatewayCall(argError, token, defaultHeaders) IN
  /\ Len(gwCalls) < MaxCalls
  /\ gwCalls' = Append(gwCalls, CallRecord(op, args, ~IsSome(argError), token, g))
  /\ UNCHANGED requests
  /\ defaultHeaders' = g.headers
  /\ ev' = Event(op, IF g.sent THEN "sent" ELSE "threw")
  /\ UNCHANGED token
  /\ AdminUnused /\ UNCHANGED <<showcaseVars, filterVars>>

GwList == GatewayInvoke("list", Args(None, EmptyPayload), None)
GwGetById ==
  \E id \in GatewayIds :
    GatewayInvoke("getById", Args(id, EmptyPayload), GetByIdArgError(id))
GwCreate ==
  \E payload \in GatewayPayloads :
    GatewayInvoke("create", Args(None, payload), CreateArgError(payload))
GwUpdate ==
  \E id \in GatewayIds, payload \in GatewayPayloads :
    GatewayInvoke("update", Args(id, payload), UpdateArgError(id, payload))
GwDelete ==
  \E id \in GatewayIds :
    GatewayInvoke("delete", Args(id, EmptyPayload), DeleteArgError(id))

\* LoginForm after a successful login: persistToken, then applyAuthHeader
Login ==
  \E t \in Tokens :
    /\ token' = Some(t)
    /\ defaultHeaders' = setHeader(defaultHeaders, "Authorization", Bearer(t))
    /\ ev' = Event("login", "")
    /\ UNCHANGED <<gwCalls, requests>>
    /\ AdminUnused /\ UNCHANGED <<showcaseVars, filterVars>>

\* frontend_shop_token is removed from localStorage (logout, expiry, another tab)
TokenCleared ==
  /\ token # None
  /\ token' = None
  /\ ev' = Event("tokenCleared", "")
  /\ UNCHANGED <<defaultHeaders, gwCalls, requests>>
  /\ AdminUnused /\ UNCHANGED <<showcaseVars, filterVars>>

\* a freshly constructed client and any token store
InitGateway ==
  /\ token \in {None} \cup {Some(t) : t \in Tokens}
  /\ defaultHeaders = InitialHeaders
  /\ gwCalls = <<>> /\ requests = <<>>
  /\ FiltersAtRest
  /\ ev = Event("mount", "")
  /\ AdminAtRest
  /\ ShowcaseAtRest

NextGateway ==
  \/ GwList
  \/ GwGetById
  \/ GwCreate
  \/ GwUpdate
  \/ GwDelete
  \/ Login
  \/ TokenCleared

SpecGateway == InitGateway /\ [][NextGateway]_vars

\* ------------------------------------------------- filter specification
\* applyClientFilters as a function of its arguments: a product list with
\* distinct ids and a filter spec.
FilterPool == {P1, P2, F1, N1, N2}

FilterInputs ==
  {list \in UNION {[1..n -> FilterPool] : n \in 0..MaxListLen} :
     \A i, j \in 1..Len(list) : i # j => list[i] # list[j]}

FilterSorts == {"featured", "price_asc", "price_desc", "rating", "newest", "bestselling"}

\* page and limit: absent, in range, out of range, fractional, zero, negative
FilterPagings ==
  {[page |-> None, limit |-> None],
   [page |-> None, limit |-> Some(2)],
   [page |-> Some(Rational(2, 1)), limit |-> Some(2)],
   [page |-> Some(Rational(3, 1)), limit |-> Some(2)],
   [page |-> Some(Rational(3, 2)), limit |-> Some(2)],
   [page |-> Some(Rational(0, 1)), limit |-> Some(2)],
   [page |-> Some(Rational(0 - 1, 1)), limit |-> Some(2)],
   [page |-> Some(Rational(2, 1)), limit |-> Some(0)]}

FilterSpecs ==
  {[search |-> q, category |-> c, tags |-> t, minPrice |-> lo, maxPrice |-> hi,
    sort |-> o, featured |-> f, page |-> None, limit |-> None] :
     q \in {None, Some("mug"), Some(" U ")},
     c \in {None, Some("Kitchen")},
     t \in {None, Some(<<"Kitchen", "design">>)},
     lo \in {None, Some(20)},
     hi \in {None, Some(20)},
     o \in {"featured", "price_desc"},
     f \in {None, Some(TRUE), Some(FALSE)}}
  \cup
  {[search |-> q, category |-> None, tags |-> None, minPrice |-> None, maxPrice |-> None,
    sort |-> o, featured |-> None, page |-> pg.page, limit |-> pg.limit] :
     q \in {None, Some(" U ")}, o \in FilterSorts, pg \in FilterPagings}

\* applyClientFilters(products, options) is called and returns
FilterApply ==
  \E options \in FilterSpecs :
    /\ filterOutput = None
    /\ filterSpec' = options
    /\ filterOutput' = Some(applyClientFilters(filterInput, options))
    /\ ev' = Event("applyClientFilters", "")
    /\ UNCHANGED <<filterInput, clientVars, gatewayVars, showcaseVars>>
    /\ AdminUnused

InitFilters ==
  /\ filterInput \in FilterInputs
  /\ filterSpec = NoFilters
  /\ filterOutput = None
  /\ token = None
  /\ defaultHeaders = InitialHeaders
  /\ gwCalls = <<>> /\ requests = <<>>
  /\ ev = Event("mount", "")
  /\ AdminAtRest
  /\ ShowcaseAtRest

NextFilters == FilterApply

SpecFilters == InitFilters /\ [][NextFilters]_vars

\* -------------------------------------------------------- client specification
\* ApiClient on its own: requests with and without a body and per-request
\* headers, and setHeader calls in between.
ClientBodies == {"none", "json", "FormData", "Blob"}

ClientOverrides ==
  {None,
   Some([h \in {"Accept"} |-> "application/json"]),
   Some([h \in {"Content-Type"} |-> "text/plain"])}

\* apiClient.request(path, {body, headers})
ClientRequest ==
  \E body \in ClientBodies, override \in ClientOverrides :
    LET r == request(defaultHeaders, body, override) IN
    /\ Len(requests) < MaxRequests
    /\ requests' = Append(requests, [body |-> body, override |-> override, wire |-> r.wire,
                                      defaults |-> defaultHeaders])
    /\ defaultHeaders' = r.headers
    /\ ev' = Event("request", body)
    /\ UNCHANGED <<token, gwCalls>>
    /\ AdminUnused /\ UNCHANGED <<showcaseVars, filterVars>>

\* apiClient.setHeader("Authorization", `Bearer ${token}`)
ClientSetHeader ==
  \E t \in Tokens :
    /\ defaultHeaders' = setHeader(defaultHeaders, "Authorization", Bearer(t))
    /\ ev' = Event("setHeader", t)
    /\ UNCHANGED <<token, gwCalls, requests>>
    /\ AdminUnused /\ UNCHANGED <<showcaseVars, filterVars>>

\* a freshly constructed client
InitClient ==
  /\ token = None
  /\ defaultHeaders = InitialHeaders
  /\ gwCalls = <<>> /\ requests = <<>>
  /\ FiltersAtRest
  /\ ev = Event("mount", "")
  /\ AdminAtRest
  /\ ShowcaseAtRest

NextClient ==
  \/ ClientRequest
  \/ ClientSetHeader

SpecClient == InitClient /\ [][NextClient]_vars

\* ---------------------------------------------- form round-trip specification
\* startEditing and submit over catalogs of canonical products as mapProduct can
\* produce them: a tag that holds a comma, a price of 0, padded name and tag.
R1 == [id |-> 6, name |-> "Kit",
       price |-> Some([amount |-> 7, originalAmount |-> None, currency |-> "USD"]),
       imageUrl |-> None, thumbnailUrl |-> None,
       tags |-> <<"home, garden">>, badges |-> <<>>,
       rating |-> None, reviewCount |-> None, stock |-> None,
       featured |-> FALSE]
R2 == [id |-> 7, name |-> "Cup",
       price |-> Some([amount |-> 0, originalAmount |-> None, currency |-> "USD"]),
       imageUrl |-> None, thumbnailUrl |-> None,
       tags |-> <<"free">>, badges |-> <<>>,
       rating |-> None, reviewCount |-> None, stock |-> None,
       featured |-> FALSE]
R3 == [id |-> 8, name |-> " Mug ",
       price |-> Some([amount |-> 120, originalAmount |-> Some(150), currency |-> "USD"]),
       imageUrl |-> None, thumbnailUrl |-> None,
       tags |-> <<" new ", "sale">>, badges |-> <<"hot ">>,
       rating |-> Some(3), reviewCount |-> Some(10), stock |-> Some(0),
       featured |-> TRUE]

RoundTripPool == {P1, P2, F1, N1, R1, R2, R3}

RoundTripCatalogs ==
  {<<p>> : p \in RoundTripPool}
    \cup {c \in {<<p, q>> : p \in RoundTripPool, q \in RoundTripPool} : c[1] # c[2]}

\* the admin page once the mount fetch has answered with a catalog
InitRoundTrip ==
  /\ \E items \in RoundTripCatalogs :
       LET st == loadResolved(loadProducts([Unmounted EXCEPT !.token = Some("t1")], "mount"),
                              1, items)
       IN
       /\ form = st.form /\ products = st.products /\ isFetching = st.isFetching
       /\ isSaving = st.isSaving /\ error = st.error /\ feedback = st.feedback
       /\ editingProduct = st.editingProduct /\ selectedImageFile = st.selectedImageFile
       /\ imagePreviewUrl = st.imagePreviewUrl /\ isUploadingImage = st.isUploadingImage
       /\ subs = st.subs /\ fetches = st.fetches /\ dels = st.dels /\ previews = st.previews
       /\ calls = st.calls /\ ev = st.ev /\ nEvents = st.nEvents
       /\ token = st.token /\ defaultHeaders = st.defaultHeaders
  /\ gwCalls = <<>> /\ requests = <<>>
  /\ FiltersAtRest
  /\ ShowcaseAtRest

NextRoundTrip ==
  \/ StartEditing
  \/ Submit

SpecRoundTrip == InitRoundTrip /\ [][NextRoundTrip]_vars

\* =================================================================== claims
HasCall(log, c) == \E k \in 1..Len(log) : log[k] = c
Before(log, a, k) == \E j \in 1..(k - 1) : log[j] = a
CountCall(log, c) == Cardinality({k \in 1..Len(log) : log[k] = c})

\* C1: within one submission the external calls are strictly ordered: the
\* upload completes before create / update is issued, and create / update
\* completes before the old-image deletion and before the catalog refetch; the
\* old-image deletion is never issued before the update call.
C1_SubmitCallsOrdered ==
  \A k \in 1..Len(calls) :
    /\ (calls[k] \in {"create", "update"} /\ Before(calls, "upload", k))
         => Before(calls, "uploadOk", k)
    /\ calls[k] = "deleteImage" => (Before(calls, "update", k) /\ Before(calls, "saveOk", k))
    /\ calls[k] = "list" => Before(calls, "saveOk", k)

\* the drafts the claim says are rejected, by the literals typed
BlankLiterals == {"", " "}
NonNumericLiterals == {"abc"}
NonPositiveLiterals == {"0", "-5"}
NegativeLiterals == {"-1", "-5"}

PriceRejected(f) == f.price \in BlankLiterals \cup NonNumericLiterals \cup NonPositiveLiterals

ExpectedRejection(f) ==
  IF PriceRejected(f) THEN Some("Price must be a positive number.")
  ELSE IF f.originalPrice \in NonNumericLiterals THEN Some("Original price must be a number.")
  ELSE IF f.rating \in NonNumericLiterals \cup NegativeLiterals
    THEN Some("Rating must be a valid number.")
  ELSE IF f.reviewCount \in NonNumericLiterals THEN Some("Review count must be a valid number.")
  ELSE IF f.stock \in NonNumericLiterals THEN Some("Stock must be a valid number.")
  ELSE None

\* C2: a submit of a draft that buildPayload rejects (price blank, non-numeric
\* or <= 0; originalPrice / rating / reviewCount / stock non-blank and
\* non-numeric; rating < 0) sets the field's error and returns: no upload,
\* image deletion, create, update or list call is issued and isSaving is not
\* set; price "0" yields "Price must be a positive number.".
C2_RejectedDraftIssuesNothing ==
  [][(ev'.h = "handleSubmit" /\ IsSome(ExpectedRejection(form)))
       => /\ ev'.out = "rejected"
          /\ error' = ExpectedRejection(form)
          /\ (form.price = "0" => error' = Some("Price must be a positive number."))
          /\ UNCHANGED <<subs, fetches, dels, previews, calls, isSaving, isUploadingImage,
                         defaultHeaders, form>>
          /\ feedback' = None
     ]_vars

C2_Witness ==
  /\ ev = Event("handleSubmit", "rejected")
  /\ form.price = "0"
  /\ error = Some("Price must be a positive number.")
  /\ subs = <<>> /\ ~isSaving

\* the draft after a step is the draft before it, but for the URL that an
\* upload resolving in the same step wrote into the image fields
DraftKept(before, after, uploaded) ==
  \/ after = before
  \/ /\ uploaded
     /\ \E f \in Files : after = [before EXCEPT !.imageUrl = UploadedUrl(f),
                                                !.thumbnailUrl = UploadedUrl(f)]

\* C3: when the create or update call fails, the extracted message is set, the
\* draft keeps every field (it is not reset), the mode is unchanged, no
\* success feedback is set and isSaving is false again.
C3_SaveFailureKeepsDraft ==
  [][ev'.out = "saveFailed"
       => /\ IsSome(error')
          /\ (ev'.h = "save" => error' \in {Some(extractErrorMessage(e)) : e \in RequestFailures})
          /\ DraftKept(form, form', ev'.h = "upload")
          /\ editingProduct' = editingProduct
          /\ selectedImageFile' = selectedImageFile
          /\ (feedback' = feedback \/ feedback' = None)
          /\ isSaving' = FALSE
     ]_vars

C3_Witness ==
  /\ ev = Event("save", "saveFailed")
  /\ form.name = "Mug" /\ form.price = "20"
  /\ error = Some("Product name already exists.")
  /\ ~isSaving /\ feedback = None

\* C4: at most one submission is in flight, and while one is in flight isSaving
\* is true, so the submit trigger is disabled.
C4_OneSubmissionInFlight ==
  /\ Len(subs) <= 1
  /\ (Len(subs) = 1 => isSaving /\ ~SubmitEnabled)

C4_Witness ==
  /\ Len(subs) = 1
  /\ subs[1].pc = "saving"
  /\ isSaving

\* C5: a list fetch whose filter spec was replaced before it resolved writes
\* none of products, usingFallback, error, isLoading when it arrives; once all
\* fetches have settled the page shows what the fetch for the latest spec
\* produced, whatever the order of arrival.
C5_StaleFetchDiscarded ==
  /\ [][\A k \in 1..Len(scFetches) :
          (scFetches' = RemoveAt(scFetches, k) /\ scFetches[k].gen # scChanges)
            => UNCHANGED <<scProducts, scUsingFallback, scError, scIsLoading, scShown>>
       ]_vars
  /\ [](scFetches = <<>>
          => /\ scShown = scChanges
             /\ ~scIsLoading
             /\ \E items \in Catalogs \cup {FALLBACK_PRODUCTS} :
                  scProducts = applyClientFilters(items, filterOptions(scSpec)))

C5_Witness ==
  /\ ev = Event("showcaseFetch", "stale")
  /\ scFetches = <<>>
  /\ scChanges >= 2
  /\ scShown = scChanges

\* C6: before every gateway call the Authorization header is refreshed from
\* the token store: a call with valid arguments is sent, with
\* "Authorization: Bearer <token>" when a token is present and with no
\* Authorization header when none is, even if an earlier call had set one.
C6_AuthHeaderFollowsToken ==
  \A k \in 1..Len(gwCalls) :
    LET c == gwCalls[k] IN
    c.valid =>
      /\ c.sent
      /\ IF Truthy(c.token)
           THEN "Authorization" \in DOMAIN c.wire /\ c.wire["Authorization"] = Bearer(Val(c.token))
           ELSE "Authorization" \notin DOMAIN c.wire

\* C7: a failed image upload aborts the submission: no create, update or
\* old-image deletion is issued, the upload error is set, draft and pending
\* file are kept, isSaving and isUploadingImage are false.
C7_UploadFailureAborts ==
  [][ev'.h = "uploadRejected"
       => /\ ev'.out = "uploadFailed"
          /\ error' = Some(UploadFailureMessage)
          /\ calls = <<"upload">>
          /\ subs' = <<>>
          /\ form' = form
          /\ selectedImageFile' = selectedImageFile
          /\ ~isSaving' /\ ~isUploadingImage'
          /\ UNCHANGED <<fetches, dels, editingProduct, feedback>>
     ]_vars

C7_Witness ==
  /\ ev = Event("uploadRejected", "uploadFailed")
  /\ error = Some(UploadFailureMessage)
  /\ selectedImageFile = Some(FilePng)
  /\ form # DEFAULT_PRODUCT_FORM
  /\ ~isSaving /\ ~isUploadingImage

\* C8: when the update call of an edit submission fails, no old-image deletion
\* was issued by that submission.
C8_NoDeletionWhenUpdateFails ==
  [][ev'.out = "saveFailed" => ~HasCall(calls, "deleteImage")]_vars

\* C9: a failed old-image deletion is not surfaced, not retried and does not
\* block the success path: the submission goes on exactly as after a
\* successful deletion, and on success sets the feedback, resets the draft,
\* leaves error null and refetches.
C9_DeleteFailureSwallowed ==
  /\ [][(ev'.h = "deleteOld"
           => (/\ ev'.out = "saving"
               /\ \E r \in {"deleteImageOk", "deleteImageFail"} : calls' = calls \o <<r, "update">>
               /\ UNCHANGED <<error, feedback, form, isSaving, editingProduct, fetches>>))
        /\ ((ev'.out = "saved" /\ HasCall(calls, "deleteImageFail"))
           => (/\ IsSome(feedback')
               /\ form' = DEFAULT_PRODUCT_FORM
               /\ error' = None
               /\ Len(fetches') = Len(fetches) + 1))
       ]_vars
  /\ [](CountCall(calls, "deleteImage") <= 1)

C9_Witness ==
  /\ calls = <<"upload", "uploadOk", "deleteImage", "deleteImageFail", "update", "saveOk", "list">>
  /\ IsSome(feedback)
  /\ error = None
  /\ form = DEFAULT_PRODUCT_FORM

\* C10: after a submit whose create / update call succeeds the draft is the
\* default form, no file or preview is pending, editingProduct is null, a
\* success feedback is set and the refetch has been issued.
C10_SuccessResetsToCreating ==
  [][ev'.out = "saved"
       => /\ form' = DEFAULT_PRODUCT_FORM
          /\ selectedImageFile' = None
          /\ imagePreviewUrl' = None
          /\ editingProduct' = None
          /\ IsSome(feedback')
          /\ Len(fetches') = Len(fetches) + 1
     ]_vars

\* C11: cancelling or closing the form, in creating or in editing mode,
\* discards the draft: afterwards the form is the default form, no image file
\* or preview is pending and the hook is in creating mode.
C11_CloseDiscardsDraft ==
  [][ev'.h = "handleCloseForm"
       => /\ form' = DEFAULT_PRODUCT_FORM
          /\ selectedImageFile' = None
          /\ imagePreviewUrl' = None
          /\ editingProduct' = None
     ]_vars

\* C12: handleDelete changes catalog, draft and editing state only when the
\* gateway delete succeeded: a declined confirmation issues no call and changes
\* nothing; a failed delete sets only the error; a successful delete of the
\* product being edited resets the draft, ends editing mode and refetches the
\* catalog.
C12_DeleteChangesOnlyOnSuccess ==
  [][/\ (ev' = Event("handleDelete", "declined")
           => UNCHANGED <<form, products, editingProduct, feedback, error, selectedImageFile,
                          imagePreviewUrl, isFetching, fetches, dels, defaultHeaders>>)
     /\ (ev'.h \in {"handleDelete", "delete"} /\ ev'.out = "deleteFailed"
           => /\ IsSome(error')
              /\ UNCHANGED <<form, products, editingProduct, feedback>>)
     /\ (ev' = Event("delete", "deleted")
           => \A k \in 1..Len(dels) :
                (/\ dels' = RemoveAt(dels, k)
                 /\ IsSome(editingProduct)
                 /\ Val(editingProduct).id = dels[k].id)
                  => /\ form' = DEFAULT_PRODUCT_FORM
                     /\ editingProduct' = None
                     /\ Len(fetches') = Len(fetches) + 1)
    ]_vars

\* what C13 calls a valid image: a JPEG, PNG, WebP or GIF of at most 5 MB
ClaimedValidImage(file) ==
  /\ file.type \in {"image/jpeg", "image/png", "image/webp", "image/gif"}
  /\ file.size <= 5 * 1024 * 1024

ValidationMessages ==
  {"Invalid file type. Please upload a JPEG, PNG, WebP, or GIF image.",
   "File size exceeds 5MB limit."}

\* C13: selecting an image file that fails validation (wrong type or over
\* 5 MB) surfaces the validation error, leaves no file pending, starts no
\* upload and no preview read, and leaves the draft's fields unchanged; only a
\* valid file ever becomes pending or is read for a preview.
C13_InvalidFileRejected ==
  [][ev'.h = "handleImageFileChange"
       => /\ IsSome(selectedImageFile') => ClaimedValidImage(Val(selectedImageFile'))
          /\ \A k \in 1..Len(previews') : ClaimedValidImage(previews'[k].file)
          /\ ev'.out = "invalid"
               => /\ IsSome(error') /\ Val(error') \in ValidationMessages
                  /\ selectedImageFile' = None
                  /\ UNCHANGED <<form, previews, subs, calls, isUploadingImage, isSaving>>
     ]_vars

C13_Witness ==
  /\ ev = Event("handleImageFileChange", "invalid")
  /\ error = Some("File size exceeds 5MB limit.")
  /\ selectedImageFile = None
  /\ previews = <<>>
  /\ form.name = "Mug"

\* ---- applyClientFilters: what the claims speak of, stated without the code
\* a list of distinct products is a subsequence of another
IsSubsequence(sub, seq) == sub = FilterSeq(seq, SeqRange(sub))

IndexIn(seq, x) == CHOOSE k \in 1..Len(seq) : seq[k] = x

NoPagination(options) == options.page = None /\ options.limit = None

\* rank of a missing price: after every price
InfinityRank == 1000000

\* the key each sort orders by, smaller first; a missing price is last under
\* both price sorts
SortKey(sort, p) ==
  CASE sort = "price_asc" -> IF IsSome(p.price) THEN Val(p.price).amount ELSE InfinityRank
    [] sort = "price_desc" -> IF IsSome(p.price) THEN 0 - Val(p.price).amount ELSE InfinityRank
    [] sort = "rating" -> 0 - (IF IsSome(p.rating) THEN Val(p.rating) ELSE 0)
    [] sort = "newest" -> 0
    [] OTHER -> IF p.featured THEN 0 ELSE 1

InSortOrder(seq, sort) ==
  \A i, j \in 1..Len(seq) : i < j => SortKey(sort, seq[i]) <= SortKey(sort, seq[j])

\* C14: applyClientFilters is idempotent when page and limit are absent:
\* applying the same spec to its own result returns that result, as a sequence.
C14_FiltersIdempotent ==
  (IsSome(filterOutput) /\ NoPagination(filterSpec))
    => applyClientFilters(Val(filterOutput), filterSpec) = Val(filterOutput)

C14_Witness ==
  /\ IsSome(filterOutput)
  /\ NoPagination(filterSpec)
  /\ filterSpec.sort = "price_desc"
  /\ IsSome(filterSpec.search)
  /\ Len(Val(filterOutput)) >= 2
  /\ Len(Val(filterOutput)) < Len(filterInput)
  /\ ~IsSubsequence(Val(filterOutput), filterInput)

\* C15 as stated: with search unset the result is a subsequence of the input,
\* the kept products in the same relative order as in the input.
C15_ResultIsSubsequence ==
  (IsSome(filterOutput) /\ filterSpec.search = None)
    => IsSubsequence(Val(filterOutput), filterInput)

\* C15 amended: with search unset the result is the kept products of the input
\* arranged by the sort stage, which always runs: a permutation of a
\* subsequence of the input, in sort order, and a subsequence of the input
\* exactly when the kept products already stand in sort order in the input.
C15_ResultIsSortedSubsequence ==
  (IsSome(filterOutput) /\ filterSpec.search = None)
    => LET out == Val(filterOutput)
           kept == FilterSeq(filterInput, SeqRange(out))
       IN /\ SeqRange(out) \subseteq SeqRange(filterInput)
          /\ Len(out) = Len(kept)
          /\ InSortOrder(out, filterSpec.sort)
          /\ IsSubsequence(out, filterInput) <=> InSortOrder(kept, filterSpec.sort)

C15_Witness ==
  /\ IsSome(filterOutput)
  /\ filterSpec.search = None
  /\ filterSpec.sort = "featured"
  /\ Len(Val(filterOutput)) >= 2
  /\ Len(Val(filterOutput)) < Len(filterInput)
  /\ ~IsSubsequence(Val(filterOutput), filterInput)

Paged(options) == IsSome(options.limit) /\ Val(options.limit) > 0

\* the predicates a filter spec enables, each as C16 words it
SearchQuery(options) ==
  IF IsSome(options.search) THEN toLowerCase(trimChars(Chars(Val(options.search)))) ELSE <<>>

MatchesSearch(p, options) ==
  SearchQuery(options) # <<>> => includes(combinedText(p), SearchQuery(options))

MatchesTags(p, options) ==
  (IsSome(options.tags) /\ Len(Val(options.tags)) > 0)
    => \E i \in 1..Len(p.tags), j \in 1..Len(Val(options.tags)) :
         toLowerCase(Chars(p.tags[i])) = toLowerCase(Chars(Val(options.tags)[j]))

MatchesCategory(p, options) ==
  Truthy(options.category)
    => \E i \in 1..Len(p.tags) :
         toLowerCase(Chars(p.tags[i])) = toLowerCase(Chars(Val(options.category)))

MatchesPrice(p, options) ==
  /\ IsSome(options.minPrice)
       => IsSome(p.price) /\ Val(p.price).amount >= Val(options.minPrice)
  /\ IsSome(options.maxPrice)
       => IsSome(p.price) /\ Val(p.price).amount <= Val(options.maxPrice)

MatchesFeatured(p, options) ==
  IsSome(options.featured) => p.featured = Val(options.featured)

SatisfiesAll(p, options) ==
  /\ MatchesSearch(p, options)
  /\ MatchesTags(p, options)
  /\ MatchesCategory(p, options)
  /\ MatchesPrice(p, options)
  /\ MatchesFeatured(p, options)

\* C16: without pagination the products returned are exactly the input
\* products that satisfy every enabled predicate (search, tags with OR inside
\* the tag set, category, minPrice, maxPrice, featured), each once; a product
\* with no price is excluded whenever minPrice or maxPrice is set.
C16_FiltersComposeByAnd ==
  (IsSome(filterOutput) /\ ~Paged(filterSpec))
    => LET out == Val(filterOutput) IN
       /\ SeqRange(out) = {p \in SeqRange(filterInput) : SatisfiesAll(p, filterSpec)}
       /\ Len(out) = Cardinality(SeqRange(out))
       /\ (IsSome(filterSpec.minPrice) \/ IsSome(filterSpec.maxPrice))
            => \A k \in 1..Len(out) : IsSome(out[k].price)

C16_Witness ==
  /\ IsSome(filterOutput)
  /\ ~Paged(filterSpec)
  /\ IsSome(filterSpec.minPrice) /\ IsSome(filterSpec.tags)
  /\ filterSpec.featured = None /\ filterSpec.category = None /\ filterSpec.search = None
  /\ \E k \in 1..Len(filterInput) : filterInput[k] = N1
  /\ \A k \in 1..Len(Val(filterOutput)) : Val(filterOutput)[k] # N1
  /\ Len(Val(filterOutput)) >= 2

\* C17: the default (featured-first) and rating sorts are stable: two products
\* of the result with equal sort keys (same featured flag, resp. same rating,
\* a missing rating counting as 0) keep their relative order from the input.
C17_SortStable ==
  (IsSome(filterOutput) /\ filterSpec.sort \notin {"price_asc", "price_desc", "newest"})
    => LET out == Val(filterOutput) IN
       \A i, j \in 1..Len(out) :
         (i < j /\ SortKey(filterSpec.sort, out[i]) = SortKey(filterSpec.sort, out[j]))
           => IndexIn(filterInput, out[i]) < IndexIn(filterInput, out[j])

C17_Witness ==
  /\ filterSpec.sort = "rating"
  /\ filterInput = <<P2, N1, P1>>
  /\ filterOutput = Some(<<P1, P2, N1>>)

\* the key C18 gives price_desc: a missing price before every price
ClaimedPriceDescKey(p) == IF IsSome(p.price) THEN 0 - Val(p.price).amount ELSE 0 - InfinityRank

\* C18 as stated: under price_asc the result is in non-decreasing price order
\* with products lacking a price last; under price_desc it is in
\* non-increasing price order with products lacking a price first.
C18_PriceSortsMissingLastThenFirst ==
  IsSome(filterOutput)
    => LET out == Val(filterOutput) IN
       /\ filterSpec.sort = "price_asc" => InSortOrder(out, "price_asc")
       /\ filterSpec.sort = "price_desc"
            => \A i, j \in 1..Len(out) :
                 i < j => ClaimedPriceDescKey(out[i]) <= ClaimedPriceDescKey(out[j])

\* C18 amended: under price_asc the result is in non-decreasing price order and
\* under price_desc in non-increasing price order; under both, products
\* lacking a price are placed last.
C18_PriceSortsMissingLast ==
  (IsSome(filterOutput) /\ filterSpec.sort \in {"price_asc", "price_desc"})
    => LET out == Val(filterOutput) IN
       /\ InSortOrder(out, filterSpec.sort)
       /\ \A i, j \in 1..Len(out) : (i < j /\ ~IsSome(out[i].price)) => ~IsSome(out[j].price)

C18_Witness ==
  /\ filterSpec.sort = "price_desc"
  /\ filterInput = <<N1, P2, F1, P1>>
  /\ filterOutput = Some(<<F1, P1, P2, N1>>)

\* the page C19 reads from a spec: max(floor(page or 1), 1)
ClaimedPage(options) ==
  LET floored == IF IsSome(options.page) /\ Val(options.page).num # 0
                   THEN Val(options.page).num \div Val(options.page).den ELSE 1
  IN IF floored > 1 THEN floored ELSE 1

\* the elements of seq at the 0-based indexes [start, start + count)
Window(seq, start, count) ==
  LET last == IF start + count < Len(seq) THEN start + count ELSE Len(seq)
  IN [k \in 1..(IF last > start THEN last - start ELSE 0) |-> seq[start + k]]

\* C19: with a positive limit the result is exactly the elements of the
\* filtered-and-sorted list at indexes [(p-1)*limit, (p-1)*limit + limit) with
\* p = max(floor(page or 1), 1): never more than limit items, no wraparound,
\* empty when the page is out of range; without a positive limit nothing is
\* sliced.
C19_PaginationWindow ==
  IsSome(filterOutput)
    => LET out == Val(filterOutput)
           full == applyClientFilters(filterInput, [filterSpec EXCEPT !.page = None, !.limit = None])
       IN IF Paged(filterSpec)
            THEN /\ out = Window(full, (ClaimedPage(filterSpec) - 1) * Val(filterSpec.limit),
                                 Val(filterSpec.limit))
                 /\ Len(out) <= Val(filterSpec.limit)
                 /\ (ClaimedPage(filterSpec) - 1) * Val(filterSpec.limit) >= Len(full) => out = <<>>
            ELSE out = full

\* limit 2, page 3 on a 4-item filtered list: empty
C19_Witness ==
  /\ filterSpec.limit = Some(2)
  /\ filterSpec.page = Some(Rational(3, 1))
  /\ Len(applyClientFilters(filterInput, [filterSpec EXCEPT !.page = None, !.limit = None])) = 4
  /\ filterOutput = Some(<<>>)

\* the arguments C20 calls invalid, per operation
ClaimedInvalidArguments(c) ==
  CASE c.op = "getById" -> ~IsSome(c.id) \/ Val(c.id) = 0
    [] c.op = "create" -> "name" \notin DOMAIN c.payload \/ c.payload.name = ""
    [] c.op = "update" -> ~IsSome(c.id) \/ DOMAIN c.payload = {}
    [] c.op = "delete" -> ~IsSome(c.id)
    [] OTHER -> FALSE

\* C20: each gateway operation rejects invalid arguments before any request is
\* sent and before the auth header is touched (getById: falsy id; create:
\* missing or empty name; update: missing id or empty payload; delete: missing
\* id); with valid arguments exactly one request is issued.
C20_ArgumentsCheckedFirst ==
  [][Len(gwCalls') = Len(gwCalls) + 1
       => LET c == gwCalls'[Len(gwCalls')] IN
          IF ClaimedInvalidArguments(c)
            THEN ~c.sent /\ defaultHeaders' = defaultHeaders
            ELSE c.sent
    ]_vars

\* a list of the payload: absent when empty
PayloadList(m) == IF IsSome(m) THEN Val(m) ELSE <<>>

TrimmedList(list) == [k \in 1..Len(list) |-> Trim(list[k])]

\* the payload built from the form state of p carries p's name, price and lists
RoundTripPreserves(p) ==
  LET r == buildPayload(productToFormState(p)) IN
  /\ r.error = None
  /\ r.payload.name = Trim(p.name)
  /\ r.payload.price = Val(p.price).amount
  /\ r.payload.originalPrice = Val(p.price).originalAmount
  /\ PayloadList(r.payload.tags) = TrimmedList(p.tags)
  /\ PayloadList(r.payload.badges) = TrimmedList(p.badges)

\* C21: for every canonical product with a price, building the payload from
\* productToFormState(p) succeeds and preserves name (modulo trim), price,
\* originalPrice, and tags and badges (same elements, same order, modulo
\* trimming); editing a product with amount 20 and originalAmount 30 and
\* submitting without changes sends an update payload with price 20 and
\* originalPrice 30.
C21_FormRoundTrip ==
  /\ (IsSome(editingProduct) /\ IsSome(Val(editingProduct).price)
        /\ form = productToFormState(Val(editingProduct)))
       => RoundTripPreserves(Val(editingProduct))
  /\ \A i \in 1..Len(subs) :
       (IsSome(subs[i].editing) /\ IsSome(Val(subs[i].editing).price)
          /\ Val(Val(subs[i].editing).price).amount = 20
          /\ Val(Val(subs[i].editing).price).originalAmount = Some(30))
         => /\ subs[i].payload.price = 20
            /\ subs[i].payload.originalPrice = Some(30)
            /\ calls = <<"update">>

ObjectStoreCalls == {"upload", "deleteImage"}

\* C24: a submit that is going to be rejected because the draft name is blank
\* performs no image upload and no old-image deletion: every client-side
\* rejection of a draft happens before the first object-store call.
C24_BlankNameRejectedBeforeUpload ==
  [][(ev'.h = "handleSubmit" /\ Trim(form.name) = "" /\ ~IsSome(editingProduct))
       => /\ IsSome(error')
          /\ subs' = subs
          /\ \A k \in 1..Len(calls') : calls'[k] \notin ObjectStoreCalls
    ]_vars

\* the pending file has been uploaded by an earlier submit of this draft: the
\* draft's image fields hold the URL the upload returned for it
PendingFileUploaded ==
  /\ IsSome(selectedImageFile)
  /\ form.imageUrl = UploadedUrl(Val(selectedImageFile))
  /\ form.thumbnailUrl = UploadedUrl(Val(selectedImageFile))

\* C25: across a failed submission and the retries of the same draft a selected
\* image file is uploaded at most once: once an upload has succeeded and its URL
\* is in the draft, a retry of submit does not upload the pending file again.
C25_UploadAtMostOnce ==
  [][(ev'.h = "handleSubmit" /\ PendingFileUploaded) => ~HasCall(calls', "upload")]_vars

\* C26: entering edit mode starts from a clean image state: after
\* startEditing(p) no image file chosen for a previous draft is pending
\* (selectedImageFile and imagePreviewUrl are null), so a later submit of p
\* neither uploads a file chosen for another draft nor deletes p's image
\* because of it.
C26_EditStartsWithoutPendingFile ==
  [][ev'.h = "startEditing" => (selectedImageFile' = None /\ imagePreviewUrl' = None)]_vars

\* C27: whenever no preview read is in progress the preview corresponds to the
\* pending file: imagePreviewUrl is non-null only if selectedImageFile is
\* non-null and the preview was generated from that file (after a valid file
\* then an invalid one, after selecting null, and when a second file is
\* selected before the first read completes).
C27_PreviewMatchesPendingFile ==
  (previews = <<>> /\ IsSome(imagePreviewUrl))
    => /\ IsSome(selectedImageFile)
       /\ Val(imagePreviewUrl) = PreviewUrlOf(Val(selectedImageFile))

\* the drafts startEditing loads from the products the catalog can hold
LoadedDrafts == UNION {{productToFormState(items[k]) : k \in 1..Len(items)} : items \in Catalogs}

\* C28: whenever the hook falls back to creating mode because a refetch no
\* longer holds the product being edited, the draft is reset to
\* DEFAULT_PRODUCT_FORM; a draft loaded from an existing product by
\* startEditing is never submitted as a create request.
C28_VanishedProductResetsDraft ==
  [][/\ (ev'.h = "loadProducts" /\ IsSome(editingProduct) /\ editingProduct' = None)
          => form' = DEFAULT_PRODUCT_FORM
     /\ (ev'.h = "handleSubmit" /\ editingProduct = None /\ form \in LoadedDrafts)
          => Len(subs') = Len(subs)
    ]_vars

\* C29: when several admin catalog fetches overlap (refresh, the refetch after
\* a submit, the refetch after a delete), then once all have settled products
\* holds the response of the most recently started fetch, whatever the order of
\* arrival, and isFetching is false only when no fetch is in flight.
C29_LatestFetchWins ==
  /\ [][(Len(fetches) = 1 /\ fetches' = <<>> /\ IsSome(fetches[1].newer))
          => products' = Val(fetches[1].newer)]_vars
  /\ [](~isFetching => fetches = <<>>)

\* C30: ApiClient.request never modifies the client's stored default headers:
\* after any sequence of requests, FormData / Blob bodies without per-request
\* headers included, a JSON request is still sent with the default
\* Content-Type: application/json and the Authorization header set earlier with
\* setHeader.
C30_RequestKeepsDefaultHeaders ==
  /\ [][Len(requests') = Len(requests) + 1 => defaultHeaders' = defaultHeaders]_vars
  /\ [](\A k \in 1..Len(requests) :
          LET r == requests[k] IN
          (r.body = "json" /\ r.override = None)
            => /\ "Content-Type" \in DOMAIN r.wire
               /\ r.wire["Content-Type"] = "application/json"
               /\ "Authorization" \in DOMAIN r.defaults
                    => /\ "Authorization" \in DOMAIN r.wire
                       /\ r.wire["Authorization"] = r.defaults["Authorization"])

====
